---- MODULE Spec2Model ----
(***************************************************************************)
(* paragrafen-ai: the per-query RAG pipeline (rag/rag_pipeline.py) and the *)
(* components it chains: AreaBlocker, NormBoost and ConfidenceGate.         *)
(*                                                                         *)
(* Numbers.  Distances are Python floats; here a distance is an integer    *)
(* number of hundredths (20 is 0.2).  Authority weights are tenths         *)
(* (7 is 0.7), so a norm_score is an integer number of thousandths         *)
(* (560 is 0.56).  Confidence scores are integers of 1/100000              *)
(* (70000 is 0.7).  All arithmetic is exact.                               *)
(*                                                                         *)
(* Python values.  NONE stands for None, an absent dictionary key or a     *)
(* value that is not a string.  A chunk is a record; its metadata is a     *)
(* record whose field isdict tells whether the Python value is a dict.     *)
(***************************************************************************)
EXTENDS Integers, Sequences, FiniteSets, TLC

VARIABLES
    \* NormBoost.rerank, called on its own
    nb_pc,          \* "ready" | "done"
    nb_input,       \* the list handed to rerank, as it was at the call
    nb_chunks,      \* the caller's list object (what rerank may have written to)
    nb_decorated,   \* the decorated list after decorated.sort(...)
    nb_out          \* the returned list

VARIABLES
    \* ConfidenceGate.evaluate, called on its own
    cg_pc,          \* "ready" | "done"
    cg_chunks,      \* the argument: [isnull, items]
    cg_result       \* the returned dict

VARIABLES
    \* RagPipeline.query
    rag_blocker,     \* self._area_blocker: "AreaBlocker" | "double"
    rag_store,       \* self._vector_store: "ChromaVectorStore" | "double"
    rag_query,       \* user_query: its words, separated by single spaces
    rag_pc,          \* where query() stands, "returned" and "raised" at its end
    rag_calls,       \* the collaborator calls made so far, in order
    rag_block,       \* block_result
    rag_store_log,   \* per collection queried: what the store call did
    rag_raw_chunks,  \* raw_chunks
    rag_reranked,    \* reranked_chunks
    rag_confidence,  \* confidence_result
    rag_result,      \* the returned dict
    rag_exc          \* the exception query() raised

ragVars == <<rag_blocker, rag_store, rag_query, rag_pc, rag_calls, rag_block,
             rag_store_log, rag_raw_chunks, rag_reranked, rag_confidence,
             rag_result, rag_exc>>

VARIABLES
    \* AreaBlocker
    ab_pc,       \* "new", "ready" once constructed ("raised" when __init__ raised), "called"
    ab_config,   \* what is found at config_path
    ab_areas,    \* self._areas
    ab_call,     \* the last call made on the blocker
    ab_reply,    \* the tuple it returned
    ab_exc       \* the exception __init__ raised

abVars == <<ab_pc, ab_config, ab_areas, ab_call, ab_reply, ab_exc>>

VARIABLES
    \* sfs_parser.detect_numbering_type
    dn_pc,         \* "ready", then "done"
    dn_threshold,  \* SINGLE_CHAPTER_THRESHOLD, read from the configuration
    dn_chapters,   \* chapters: kapitel_nr -> list of paragraf_nr
    dn_result      \* the returned string

dnVars == <<dn_pc, dn_threshold, dn_chapters, dn_result>>

VARIABLES
    \* sfs_normalizer.get_verified_numbering_type
    vn_pc,       \* "idle" or "running"
    vn_map,      \* _PRIORITY_MAP, read from the configuration
    vn_warned,   \* _warned_sfs_type
    vn_log,      \* the warnings logged, each with the number of the call that logged it
    vn_calls     \* the calls made, each with its arguments and its return value

vnVars == <<vn_pc, vn_map, vn_warned, vn_log, vn_calls>>

VARIABLES
    \* sfs_chunker.chunk_paragraphs
    ck_pc,          \* "ready", then "done"
    ck_paragraphs,  \* paragraphs
    ck_chunks,      \* the returned list
    ck_cursor       \* the values of the loop cursor i, in order

ckVars == <<ck_pc, ck_paragraphs, ck_chunks, ck_cursor>>

VARIABLES
    \* forarbete_publish.publish_forarbete
    pb_pc,            \* "ready", "running", then "returned" or "raised"
    pb_run,           \* "first" or "second" call
    pb_edited,        \* a norm file was rewritten after the first call
    pb_norm,          \* the files under norm_dir in sorted order: their content
    pb_published,     \* the files under published_dir at the same relative paths
    pb_published_dir, \* published_dir exists
    pb_dry_run,       \* dry_run
    pb_force,         \* force
    pb_i,             \* the norm files the loop has gone through
    pb_results,       \* results
    pb_log,           \* per norm file, the status counted for it
    pb_written,       \* the files written by this call
    pb_exc,           \* the exception the call raised
    pb_prev           \* the first call: the norm files it saw and how it went

pbVars == <<pb_pc, pb_run, pb_edited, pb_norm, pb_published, pb_published_dir, pb_dry_run,
            pb_force, pb_i, pb_results, pb_log, pb_written, pb_exc, pb_prev>>

VARIABLES
    \* sfs_fetcher.SfsFetcher.fetch_all
    sf_pc,            \* "list", "documents", "html", then "returned" or "raised"
    sf_max_retries,   \* self.max_retries
    sf_listing,       \* the documents the list API has on its one page
    sf_files,         \* the stems of the files under output_dir
    sf_page,          \* page
    sf_page_failures, \* consecutive_page_failures
    sf_next,          \* the position in the page of the document at hand
    sf_attempt,       \* passes made by _request_with_retry for it
    sf_summary,       \* summary
    sf_errors,        \* the entries appended to the errors file
    sf_requests,      \* the HTML requests sent: position of the document, outcome
    sf_saved,         \* the positions of the documents written by this call
    sf_exc            \* the exception that left fetch_all

sfVars == <<sf_pc, sf_max_retries, sf_listing, sf_files, sf_page, sf_page_failures, sf_next,
            sf_attempt, sf_summary, sf_errors, sf_requests, sf_saved, sf_exc>>

VARIABLES
    \* forarbete_parser.ForarbeteParser._chunk_section
    fp_pc,          \* "start", "pack", "filter", "returned"
    fp_section,     \* section.paragraphs, each the sequence of its sentences
    fp_paragraphs,  \* paragraphs
    fp_idx,         \* idx, counted from 1
    fp_trace,       \* the values idx had at the passes of the packing loop
    fp_chunks,      \* chunks: first and last paragraph selected, words of the text
    fp_result       \* the list returned, empty until then

fpVars == <<fp_pc, fp_section, fp_paragraphs, fp_idx, fp_trace, fp_chunks, fp_result>>

nbVars == <<nb_pc, nb_input, nb_chunks, nb_decorated, nb_out>>
cgVars == <<cg_pc, cg_chunks, cg_result>>

NONE == "None"

(***************************************************************************)
(* Bounds                                                                  *)
(***************************************************************************)
MaxRerankChunks == 3
MaxGateChunks == 2
MaxQueryWords == 2
MaxResults == 1
MaxAreas == 2
MaxBlockerQueryWords == 2
MaxChapter == 3
MaxCalls == 3
MaxParagraphs == 3
MaxNormFiles == 2
MaxValidAround == 1
MaxRetries == 2
MaxDocuments == 2
MaxSectionParagraphs == 3

(***************************************************************************)
(* Chunks                                                                  *)
(***************************************************************************)
NoDistance == [t |-> "none", v |-> 0]
Num(v) == [t |-> "num", v |-> v]        \* an int or float
NumStr(v) == [t |-> "numstr", v |-> v]  \* a string float() parses, e.g. "0.6"
BadStr == [t |-> "str", v |-> 0]        \* a string float() rejects

Meta(a, d, s) == [isdict |-> TRUE, authority_level |-> a, distance |-> d, source_type |-> s]
NotADict == [isdict |-> FALSE, authority_level |-> NONE, distance |-> NoDistance, source_type |-> NONE]
EmptyDict == Meta(NONE, NoDistance, NONE)

Chunk(a, d, s) == [metadata |-> Meta(a, d, s)]

(***************************************************************************)
(* index/norm_boost.py                                                     *)
(***************************************************************************)
AUTHORITY_WEIGHTS == [binding |-> 10, guiding |-> 7, persuasive |-> 4]

\* _relevance_weight(distance), in hundredths
RelevanceWeight(distance) ==
    IF distance.t = "none" THEN 50
    ELSE IF distance.t = "str" THEN 50
    ELSE LET d0 == distance.v
             d1 == IF d0 < 0 THEN 0 ELSE d0
             d2 == IF d1 > 100 THEN 100 ELSE d1
         IN  100 - d2

\* _authority_rank(level)
AuthorityRank(level) ==
    IF level = "binding" THEN 0
    ELSE IF level = "guiding" THEN 1
    ELSE 2

\* metadata = chunk.get("metadata") or {}; not a dict -> {}
RerankMetadata(chunk) ==
    IF chunk.metadata.isdict THEN chunk.metadata ELSE EmptyDict

\* authority_level = metadata.get("authority_level"); not in AUTHORITY_WEIGHTS -> "persuasive"
EffectiveAuthority(chunk) ==
    LET authority_level == RerankMetadata(chunk).authority_level
    IN  IF authority_level \in DOMAIN AUTHORITY_WEIGHTS THEN authority_level ELSE "persuasive"

\* norm_score = authority_weight * relevance_weight, in thousandths
NormScore(chunk) ==
    AUTHORITY_WEIGHTS[EffectiveAuthority(chunk)] * RelevanceWeight(RerankMetadata(chunk).distance)

\* out_chunk = dict(chunk); out_chunk["norm_score"] = norm_score
OutChunk(chunk) ==
    [f \in DOMAIN chunk \cup {"norm_score"} |->
        IF f = "norm_score" THEN NormScore(chunk) ELSE chunk[f]]

\* what the loop body leaves in the caller's chunk: it writes to the copy only
InputAfter(chunk) == chunk

\* a rerank that skips a chunk whose metadata is not a dict instead of reading it as {}
RECURSIVE DecorateFrom(_, _)
DecorateFrom(chunks, i) ==
    IF i > Len(chunks) THEN <<>>
    ELSE IF ~chunks[i].metadata.isdict THEN DecorateFrom(chunks, i + 1)
    ELSE <<[norm_score |-> NormScore(chunks[i]),
            authority_rank |-> AuthorityRank(EffectiveAuthority(chunks[i])),
            idx |-> i - 1,
            out_chunk |-> OutChunk(chunks[i])]>> \o DecorateFrom(chunks, i + 1)
DecorateSkippingBadMetadata(chunks) == DecorateFrom(chunks, 1)

\* decorated.append((norm_score, authority_rank, idx, out_chunk))
Decorate(chunks) ==
    [i \in 1..Len(chunks) |->
        [norm_score |-> NormScore(chunks[i]),
         authority_rank |-> AuthorityRank(EffectiveAuthority(chunks[i])),
         idx |-> i - 1,
         out_chunk |-> OutChunk(chunks[i])]]

\* a sort written with reverse=True that also reverses the index order
SortKeyReversedIndex(t) == <<-t.norm_score, t.authority_rank, -t.idx>>

\* key=lambda t: (-t[0], t[1], t[2])
SortKey(t) == <<-t.norm_score, t.authority_rank, t.idx>>

\* Python's tuple order
KeyLess(k1, k2) ==
    \/ k1[1] < k2[1]
    \/ k1[1] = k2[1] /\ k1[2] < k2[2]
    \/ k1[1] = k2[1] /\ k1[2] = k2[2] /\ k1[3] < k2[3]

\* list.sort is stable: an element goes after every element whose key is not greater
RECURSIVE InsertByKey(_, _)
InsertByKey(sorted, t) ==
    IF sorted = <<>> THEN <<t>>
    ELSE IF KeyLess(SortKey(t), SortKey(Head(sorted)))
         THEN <<t>> \o sorted
         ELSE <<Head(sorted)>> \o InsertByKey(Tail(sorted), t)

RECURSIVE SortDecorated(_)
SortDecorated(decorated) ==
    IF decorated = <<>> THEN <<>>
    ELSE InsertByKey(SortDecorated(SubSeq(decorated, 1, Len(decorated) - 1)),
                     decorated[Len(decorated)])

\* rerank(chunks): [t[3] for t in decorated]
Rerank(chunks) ==
    LET sorted == SortDecorated(Decorate(chunks))
    IN  [i \in 1..Len(sorted) |-> sorted[i].out_chunk]

(***************************************************************************)
(* rerank on its own: the inputs                                           *)
(***************************************************************************)
RerankAuthorities == {"binding", "guiding", "preparatory", "persuasive", "okänd_nivå", NONE}

RerankChunks ==
    {Chunk(a, d, "sfs") : a \in RerankAuthorities, d \in {Num(0), Num(100)}}
    \cup {Chunk(a, d, "sfs") : a \in {"binding", "persuasive"},
                               d \in {NoDistance, BadStr, Num(-10), Num(60), Num(130)}}
    \cup {Chunk("guiding", NumStr(60), "sfs"), [metadata |-> NotADict]}

RerankInputs == UNION {[1..n -> RerankChunks] : n \in 0..MaxRerankChunks}

NbIdle ==
    /\ nb_pc = "idle"
    /\ nb_input = <<>>
    /\ nb_chunks = <<>>
    /\ nb_decorated = <<>>
    /\ nb_out = <<>>

NbInit ==
    /\ nb_pc = "ready"
    /\ nb_input \in RerankInputs
    /\ nb_chunks = nb_input
    /\ nb_decorated = <<>>
    /\ nb_out = <<>>

NbRerank ==
    /\ nb_pc = "ready"
    /\ nb_pc' = "done"
    /\ nb_decorated' = SortDecorated(Decorate(nb_chunks))
    /\ nb_out' = Rerank(nb_chunks)
    /\ nb_chunks' = [i \in 1..Len(nb_chunks) |-> InputAfter(nb_chunks[i])]
    /\ UNCHANGED nb_input


(***************************************************************************)
(* guard/confidence_gate.py                                                *)
(***************************************************************************)
\* a threshold that two of the penalties together fall below
StricterThreshold == 100000 - 35000

pass_threshold == 50000

\* a score that grows where evaluate subtracts
PenaltyAdded == 0 - 30000

only_persuasive_penalty == 30000
conflicting_authority_penalty == 20000
sparse_results_penalty == 15000
single_source_type_penalty == 10000
conflict_distance_threshold == 20
default_distance == 50

\* str.strip().lower() on the strings the model draws; every other string of the
\* model is already stripped and lower case
StripLower(s) ==
    IF s = " Binding " THEN "binding"
    ELSE IF s = "GUIDING" THEN "guiding"
    ELSE IF s = "SFS " THEN "sfs"
    ELSE IF s = "  " THEN ""
    ELSE s

\* _get_metadata(chunk)
GetMetadata(chunk) ==
    IF chunk.metadata.isdict THEN chunk.metadata ELSE EmptyDict

\* _get_distance(chunk), in hundredths: only an int or float counts
GetDistance(chunk) ==
    LET distance == GetMetadata(chunk).distance
    IN  IF distance.t = "num" THEN distance.v ELSE default_distance

\* _get_authority_level(chunk)
GetAuthorityLevel(chunk) ==
    LET authority == GetMetadata(chunk).authority_level
    IN  IF authority = NONE THEN "persuasive"
        ELSE IF StripLower(authority) = "" THEN "persuasive"
        ELSE StripLower(authority)

\* _get_source_type(chunk)
GetSourceType(chunk) ==
    LET source_type == GetMetadata(chunk).source_type
    IN  IF source_type = NONE THEN "unknown"
        ELSE IF StripLower(source_type) = "" THEN "unknown"
        ELSE StripLower(source_type)

\* a conflict test that leaves out the chunks at exactly the threshold distance
HasConflictBelowThreshold(chunks) ==
    LET low == {i \in 1..Len(chunks) : GetDistance(chunks[i]) < conflict_distance_threshold}
        levels == {GetAuthorityLevel(chunks[i]) : i \in low}
    IN  "binding" \in levels /\ "guiding" \in levels

\* _has_conflicting_authority(chunks); the sort by distance does not change the
\* set of levels built from the filtered list
HasConflictingAuthority(chunks) ==
    LET low_distance_chunks ==
            {i \in 1..Len(chunks) : GetDistance(chunks[i]) <= conflict_distance_threshold}
        levels == {GetAuthorityLevel(chunks[i]) : i \in low_distance_chunks}
    IN  IF low_distance_chunks = {} THEN FALSE
        ELSE "binding" \in levels /\ "guiding" \in levels

\* round(score, 4): scores are integers of 1/100000
Round4(x) == ((x + 5) \div 10) * 10

Max(a, b) == IF a >= b THEN a ELSE b

\* a reason that leaves the flags out
BuildReasonWithoutFlags(flags) == [text |-> "Confidence below threshold.", joined |-> <<>>]

\* the reason of a result: None, or a text followed by the joined flag names
NoReason == [text |-> NONE, joined |-> <<>>]

\* _build_reason(flags)
BuildReason(flags) ==
    IF flags = <<>> THEN [text |-> "Confidence below threshold.", joined |-> <<>>]
    ELSE [text |-> "Confidence below threshold due to: ", joined |-> flags]

\* evaluate(chunks)
Evaluate(chunks) ==
    LET normalized_chunks == IF chunks.isnull THEN <<>> ELSE chunks.items
    IN  IF normalized_chunks = <<>>
        THEN [pass |-> FALSE, score |-> 0,
              reason |-> [text |-> "No retrieval results.", joined |-> <<>>],
              flags |-> <<"no_results">>]
        ELSE
        LET n == Len(normalized_chunks)
            authority_levels == [i \in 1..n |-> GetAuthorityLevel(normalized_chunks[i])]
            source_types == [i \in 1..n |-> GetSourceType(normalized_chunks[i])]
            p1 == \A i \in 1..n : authority_levels[i] = "persuasive"
            p2 == HasConflictingAuthority(normalized_chunks)
            p3 == n < 2
            p4 == Cardinality({source_types[i] : i \in 1..n}) = 1
            flags == (IF p1 THEN <<"only_persuasive">> ELSE <<>>)
                     \o (IF p2 THEN <<"conflicting_authority">> ELSE <<>>)
                     \o (IF p3 THEN <<"sparse_results">> ELSE <<>>)
                     \o (IF p4 THEN <<"single_source_type">> ELSE <<>>)
            s1 == 100000 - (IF p1 THEN only_persuasive_penalty ELSE 0)
            s2 == s1 - (IF p2 THEN conflicting_authority_penalty ELSE 0)
            s3 == s2 - (IF p3 THEN sparse_results_penalty ELSE 0)
            s4 == s3 - (IF p4 THEN single_source_type_penalty ELSE 0)
            score == Max(0, Round4(s4))
            passed == score >= pass_threshold
        IN  [pass |-> passed, score |-> score,
             reason |-> IF passed THEN NoReason ELSE BuildReason(flags),
             flags |-> flags]

(***************************************************************************)
(* evaluate on its own: the inputs                                         *)
(***************************************************************************)
GateChunks ==
    {Chunk(a, d, s) : a \in {"binding", "guiding", "preparatory", "persuasive", " Binding ", NONE},
                      d \in {Num(20), Num(21), NoDistance},
                      s \in {"sfs", "SFS ", "praxis"}}
    \cup {Chunk("GUIDING", Num(0), NONE), Chunk("  ", NumStr(10), "  "), [metadata |-> NotADict]}

GateInputs ==
    {[isnull |-> TRUE, items |-> <<>>]}
    \cup {[isnull |-> FALSE, items |-> items] :
            items \in UNION {[1..n -> GateChunks] : n \in 0..MaxGateChunks}}

NoResult == [pass |-> FALSE, score |-> 0, reason |-> NoReason, flags |-> <<>>]

CgIdle ==
    /\ cg_pc = "idle"
    /\ cg_chunks = [isnull |-> TRUE, items |-> <<>>]
    /\ cg_result = NoResult

CgInit ==
    /\ cg_pc = "ready"
    /\ cg_chunks \in GateInputs
    /\ cg_result = NoResult

CgEvaluate ==
    /\ cg_pc = "ready"
    /\ cg_pc' = "done"
    /\ cg_result' = Evaluate(cg_chunks)
    /\ UNCHANGED cg_chunks


(***************************************************************************)
(* guard/area_blocker.py: is_blocked over the built-in areas               *)
(*                                                                         *)
(* A query is the sequence of its words (runs of word characters); the     *)
(* words of a query are separated by single spaces.  A term is the         *)
(* sequence of its words.  The regex \b(?:t1|t2|...)\b with IGNORECASE     *)
(* finds a term where consecutive words of the query equal the term's      *)
(* words, case ignored.                                                    *)
(***************************************************************************)
W(word) == <<word>>

BUILT_IN_KEYWORDS ==
    [straffratt |-> <<W("brott"), W("brottslig"), W("straff"), W("fängelse"), W("åtal"),
                      W("åklagare"), W("häkte"), W("häktad"), W("dom"), W("dömdes"),
                      W("stöld"), W("rån"), W("mord"), W("misshandel"), W("bedrägeri"),
                      W("narkotika"), W("rattfylleri"), W("brottsbalken")>>,
     asyl |-> <<W("asyl"), W("asylansökan"), W("flyktingstatus"), W("uppehållstillstånd"),
                W("ut"), W("utvisning"), W("avvisning"), W("migrationsverket"),
                W("migrationsdomstol"), W("flykting"), W("skyddsstatus")>>,
     skatteratt |-> <<W("skatt"), W("inkomstskatt"), W("moms"), W("mervärdesskatt"),
                      W("skattedeklaration"), W("skatteverket"), W("skattebrott"),
                      W("f-skatt"), W("deklaration")>>,
     vbu |-> <<W("vårdnad"), W("umgänge"), W("boende"), <<"ensam", "vårdnad">>,
               <<"gemensam", "vårdnad">>, W("umgängesrätt"), <<"barnets", "bästa">>,
               W("socialnämnden")>>]

BUILT_IN_AREAS ==
    <<[id |-> "straffrätt", label |-> "Straffrätt", keywords |-> <<>>,
       sfs_patterns |-> <<"1962:700", "2010:1408">>,
       message |-> "Denna tjänst täcker inte straffrättsliga frågor. Kontakta en advokat eller rättshjälpen."],
      [id |-> "asyl", label |-> "Asylrätt och migration", keywords |-> <<>>,
       sfs_patterns |-> <<"2005:716", "2016:752">>,
       message |-> "Asylrättsliga frågor kräver juridiskt ombud. Kontakta Advokatjouren eller Rådgivningsbyrån för asylsökande."],
      [id |-> "skatterätt", label |-> "Skatterätt", keywords |-> <<>>,
       sfs_patterns |-> <<"1999:1229">>,
       message |-> "För skattefrågor, kontakta Skatteverket eller en skatterådgivare."],
      [id |-> "vbu", label |-> "Vårdnad, boende och umgänge", keywords |-> <<>>,
       sfs_patterns |-> <<"1949:381_kap6">>,
       message |-> "Tvister om vårdnad, boende och umgänge kräver juridiskt ombud. Kontakta familjerätten i din kommun."]>>

\* _normalize_area_id(area_id) on the ids of the areas
NormalizeAreaId(area_id) ==
    IF area_id = "straffrätt" THEN "straffratt"
    ELSE IF area_id = "skatterätt" THEN "skatteratt"
    ELSE area_id

\* str.lower() on the words the model draws
Lower(word) ==
    IF word = "STÖLD" THEN "stöld"
    ELSE IF word = "Skatt" THEN "skatt"
    ELSE IF word = "Ny" THEN "ny"
    ELSE word

\* len(term.strip()) >= 3: "ut" and "ny" are the shorter terms of the tables
LongEnough(term) == ~(Len(term) = 1 /\ term[1] \in {"ut", "ny"})

\* the words of a label or an id
Words(text) ==
    IF text = "Ny area" THEN <<"Ny", "area">>
    ELSE <<text>>

\* term.lower()
LowerTerm(term) == [k \in 1..Len(term) |-> Lower(term[k])]

RECURSIVE Dedupe(_)
Dedupe(terms) ==
    IF terms = <<>> THEN <<>>
    ELSE LET init == Dedupe(SubSeq(terms, 1, Len(terms) - 1))
             last == terms[Len(terms)]
         IN  IF \E i \in 1..Len(init) : init[i] = last THEN init ELSE Append(init, last)

\* _build_terms_for_area(area); an area's own keywords are lists of lower-case terms
BuildTermsForArea(area) ==
    LET normalized_id == NormalizeAreaId(area.id)
        terms1 == area.keywords
        terms2 == IF terms1 # <<>> THEN terms1
                  ELSE IF normalized_id \in DOMAIN BUILT_IN_KEYWORDS
                       THEN BUILT_IN_KEYWORDS[normalized_id]
                       ELSE <<>>
        terms3 == IF terms2 # <<>> THEN terms2
                  ELSE (IF area.label # "" THEN <<Words(area.label)>> ELSE <<>>)
                       \o (IF area.id # "" THEN <<Words(area.id)>> ELSE <<>>)
        long == SelectSeq(terms3, LongEnough)
    IN  Dedupe([t \in 1..Len(long) |-> LowerTerm(long[t])])

\* _build_keyword_patterns(areas): a later area with the same normalized id
\* replaces the pattern of an earlier one
KeywordPatterns(areas) ==
    LET with == {i \in 1..Len(areas) :
                    NormalizeAreaId(areas[i].id) # "" /\ BuildTermsForArea(areas[i]) # <<>>}
        ids == {NormalizeAreaId(areas[i].id) : i \in with}
        LastOf(id) == CHOOSE i \in with :
                         /\ NormalizeAreaId(areas[i].id) = id
                         /\ \A j \in with : NormalizeAreaId(areas[j].id) = id => j <= i
    IN  [id \in ids |-> BuildTermsForArea(areas[LastOf(id)])]

\* pattern.search(query) for one term
TermFound(term, query) ==
    \E i \in 1..(Len(query) - Len(term) + 1) :
        \A k \in 1..Len(term) : Lower(query[i + k - 1]) = term[k]

PatternFound(terms, query) == \E t \in 1..Len(terms) : TermFound(terms[t], query)

\* _get_message(area)
GetMessage(area) ==
    IF area.message # NONE /\ area.message # "" THEN area.message
    ELSE "Denna fråga täcks inte av tjänsten."

\* is_blocked(query): the tuple (blocked, message)
IsBlocked(areas, query) ==
    LET patterns == KeywordPatterns(areas)
        hits == {i \in 1..Len(areas) :
                    /\ NormalizeAreaId(areas[i].id) \in DOMAIN patterns
                    /\ PatternFound(patterns[NormalizeAreaId(areas[i].id)], query)}
    IN  IF query = <<>> \/ hits = {}
        THEN [type |-> "tuple", blocked |-> FALSE, message |-> NONE]
        ELSE LET first == CHOOSE i \in hits : \A j \in hits : i <= j
             IN  [type |-> "tuple", blocked |-> TRUE, message |-> GetMessage(areas[first])]

(***************************************************************************)
(* guard/area_blocker.py: is_sfs_blocked                                   *)
(*                                                                         *)
(* An SFS string is read as the sequence of its pieces: a statute number,  *)
(* the chapter mark "_kap" (in either case), chapter digits, and blanks.   *)
(***************************************************************************)
Pieces(text) ==
    IF text = "" THEN <<>>
    ELSE IF text = "1949:381_kap6" THEN <<"1949:381", "_kap", "6">>
    ELSE IF text = "1949:381_kap7" THEN <<"1949:381", "_kap", "7">>
    ELSE IF text = "1949:381_kap60" THEN <<"1949:381", "_kap", "6", "0">>
    ELSE IF text = "1949:381_KAP6" THEN <<"1949:381", "_KAP", "6">>
    ELSE IF text = "1949:381_KAP6 " THEN <<"1949:381", "_KAP", "6", " ">>
    ELSE IF text = " 1962:700 " THEN <<" ", "1962:700", " ">>
    ELSE IF text = "1962:700_kap1" THEN <<"1962:700", "_kap", "1">>
    ELSE <<text>>

\* str.strip()
RECURSIVE StripPieces(_)
StripPieces(ps) ==
    IF ps = <<>> THEN <<>>
    ELSE IF Head(ps) = " " THEN StripPieces(Tail(ps))
    ELSE IF ps[Len(ps)] = " " THEN StripPieces(SubSeq(ps, 1, Len(ps) - 1))
    ELSE ps

\* str.lower()
LowerPieces(ps) == [k \in 1..Len(ps) |-> IF ps[k] = "_KAP" THEN "_kap" ELSE ps[k]]

\* "_kap" in text
HasKap(ps) == \E k \in 1..Len(ps) : ps[k] = "_kap"

\* text.split("_kap", 1)[0]
BeforeKap(ps) ==
    LET k == CHOOSE k \in 1..Len(ps) : ps[k] = "_kap" /\ \A j \in 1..(k - 1) : ps[j] # "_kap"
    IN  SubSeq(ps, 1, k - 1)

\* text.startswith(prefix)
StartsWith(ps, prefix) ==
    Len(prefix) <= Len(ps) /\ SubSeq(ps, 1, Len(prefix)) = prefix

\* _iter_sfs_patterns(area): the stripped patterns, without the empty ones
IterSfsPatterns(area) ==
    LET stripped == [k \in 1..Len(area.sfs_patterns) |->
                        StripPieces(Pieces(area.sfs_patterns[k]))]
    IN  SelectSeq(stripped, LAMBDA ps : ps # <<>>)

\* a pattern that blocks every string beginning with it
PatternBlocksByPrefix(pattern, normalized_sfs) ==
    StartsWith(normalized_sfs, IF HasKap(LowerPieces(pattern))
                               THEN BeforeKap(LowerPieces(pattern))
                               ELSE LowerPieces(pattern))

\* the body of the inner loop of is_sfs_blocked: does this pattern block?
PatternBlocks(pattern, normalized_sfs) ==
    LET normalized_pattern == LowerPieces(pattern)
    IN  IF HasKap(normalized_pattern)
        THEN \/ normalized_sfs = normalized_pattern
             \/ /\ HasKap(normalized_sfs)
                /\ StartsWith(normalized_sfs, BeforeKap(normalized_pattern) \o <<"_kap">>)
        ELSE normalized_sfs = normalized_pattern

NormalizedSfs(sfs_nr) == LowerPieces(StripPieces(Pieces(sfs_nr)))

\* is_sfs_blocked(sfs_nr): the tuple (blocked, message)
IsSfsBlocked(areas, sfs_nr) ==
    LET normalized_sfs == NormalizedSfs(sfs_nr)
        hits == {i \in 1..Len(areas) :
                    \E k \in 1..Len(IterSfsPatterns(areas[i])) :
                        PatternBlocks(IterSfsPatterns(areas[i])[k], normalized_sfs)}
    IN  IF sfs_nr = "" \/ hits = {}
        THEN [type |-> "tuple", blocked |-> FALSE, message |-> NONE]
        ELSE LET first == CHOOSE i \in hits : \A j \in hits : i <= j
             IN  [type |-> "tuple", blocked |-> TRUE, message |-> GetMessage(areas[first])]

(***************************************************************************)
(* guard/area_blocker.py: __init__ and _load_areas                         *)
(***************************************************************************)
DefaultMessage == "Denna fråga täcks inte av tjänsten."

\* an entry of the list excluded_areas; NONE stands for a key that is absent
Entry(id, label, message, keywords, sfs_patterns) ==
    [isdict |-> TRUE, id |-> id, label |-> label, message |-> message,
     keywords |-> keywords, sfs_patterns |-> sfs_patterns]

NotAnEntry == [isdict |-> FALSE, id |-> NONE, label |-> NONE, message |-> NONE,
               keywords |-> <<>>, sfs_patterns |-> <<>>]

Entries ==
    {Entry("straffrätt", "Straffrätt",
           "Denna tjänst täcker inte straffrättsliga frågor. Kontakta en advokat eller rättshjälpen.",
           <<>>, <<"1962:700">>),
     Entry("asyl", NONE,
           "Asylrättsliga frågor kräver juridiskt ombud. Kontakta Advokatjouren eller Rådgivningsbyrån för asylsökande.",
           <<>>, <<>>),
     Entry("straffratt", "Skatt", "För skattefrågor, kontakta Skatteverket eller en skatterådgivare.",
           <<W("ut"), W("Skatt")>>, <<>>),
     Entry("vbu", "Vårdnad, boende och umgänge",
           "Tvister om vårdnad, boende och umgänge kräver juridiskt ombud. Kontakta familjerätten i din kommun.",
           <<>>, <<"1949:381_kap6">>),
     Entry("ny", "Ny area", NONE, <<>>, <<" 1962:700 ", "1949:381_KAP6">>),
     Entry(" ", "Straffrätt", NONE, <<W("stöld")>>, <<"1962:700">>),
     NotAnEntry}

\* what __init__ finds at config_path
Configs ==
    {[kind |-> k, entries |-> <<>>] :
        k \in {"missing", "os_error", "decode_error", "yaml_error", "not_mapping", "not_list"}}
    \cup {[kind |-> "list", entries |-> es] :
            es \in UNION {[1..n -> Entries] : n \in 0..MaxAreas}}

\* str(area.get("id", "")).strip()
StripId(id) == IF id = NONE \/ id = " " THEN "" ELSE id

\* the loop of _load_areas over excluded_areas
RECURSIVE NormalizedAreas(_)
NormalizedAreas(entries) ==
    IF entries = <<>> THEN <<>>
    ELSE LET init == NormalizedAreas(SubSeq(entries, 1, Len(entries) - 1))
             area == entries[Len(entries)]
             area_id == StripId(area.id)
         IN  IF ~area.isdict \/ area_id = "" THEN init
             ELSE Append(init,
                    [id |-> area_id,
                     label |-> IF area.label = NONE THEN area_id ELSE area.label,
                     message |-> IF area.message = NONE THEN DefaultMessage ELSE area.message,
                     keywords |-> area.keywords,
                     sfs_patterns |-> area.sfs_patterns])

\* _load_areas(): the areas, or the exception that leaves it
LoadAreas(config) ==
    IF config.kind = "decode_error"
    THEN [raised |-> "UnicodeDecodeError", areas |-> <<>>]
    ELSE IF config.kind \in {"missing", "os_error", "yaml_error", "not_mapping", "not_list"}
    THEN [raised |-> NONE, areas |-> BUILT_IN_AREAS]
    ELSE IF NormalizedAreas(config.entries) = <<>>
    THEN [raised |-> NONE, areas |-> BUILT_IN_AREAS]
    ELSE [raised |-> NONE, areas |-> NormalizedAreas(config.entries)]

BlockerQueryWords == {"stöld", "STÖLD", "asyl", "skatt", "ny", "area"}

BlockerQueries == UNION {[1..n -> BlockerQueryWords] : n \in 0..MaxBlockerQueryWords}

SfsNumbers ==
    {"", "1949:381", "1949:381_kap6", "1949:381_kap7", "1949:381_kap60", "1949:381_KAP6 ",
     "1962:700", " 1962:700 ", "1962:700_kap1", "2000:100"}

NoCall == [op |-> NONE, query |-> <<>>, sfs_nr |-> ""]

NoReply == [type |-> "none", blocked |-> FALSE, message |-> NONE]

AbIdle ==
    /\ ab_pc = "idle"
    /\ ab_config = [kind |-> "missing", entries |-> <<>>]
    /\ ab_areas = <<>>
    /\ ab_call = NoCall
    /\ ab_reply = NoReply
    /\ ab_exc = NONE

AbInit ==
    /\ ab_pc = "new"
    /\ ab_config \in Configs
    /\ ab_areas = <<>>
    /\ ab_call = NoCall
    /\ ab_reply = NoReply
    /\ ab_exc = NONE

\* AreaBlocker(config_path)
AbConstruct ==
    /\ ab_pc = "new"
    /\ LET loaded == LoadAreas(ab_config)
       IN  IF loaded.raised # NONE
           THEN /\ ab_pc' = "raised"
                /\ ab_exc' = loaded.raised
                /\ UNCHANGED ab_areas
           ELSE /\ ab_pc' = "ready"
                /\ ab_areas' = loaded.areas
                /\ UNCHANGED ab_exc
    /\ UNCHANGED <<ab_config, ab_call, ab_reply>>
    /\ UNCHANGED <<nbVars, cgVars, ragVars, dnVars, vnVars, ckVars, pbVars, sfVars, fpVars>>

\* blocker.is_blocked(query)
AbIsBlocked ==
    /\ ab_pc = "ready"
    /\ \E query \in BlockerQueries :
          /\ ab_call' = [op |-> "is_blocked", query |-> query, sfs_nr |-> ""]
          /\ ab_reply' = IsBlocked(ab_areas, query)
    /\ ab_pc' = "called"
    /\ UNCHANGED <<ab_config, ab_areas, ab_exc>>
    /\ UNCHANGED <<nbVars, cgVars, ragVars, dnVars, vnVars, ckVars, pbVars, sfVars, fpVars>>

\* blocker.is_sfs_blocked(sfs_nr)
AbIsSfsBlocked ==
    /\ ab_pc = "ready"
    /\ \E sfs_nr \in SfsNumbers :
          /\ ab_call' = [op |-> "is_sfs_blocked", query |-> <<>>, sfs_nr |-> sfs_nr]
          /\ ab_reply' = IsSfsBlocked(ab_areas, sfs_nr)
    /\ ab_pc' = "called"
    /\ UNCHANGED <<ab_config, ab_areas, ab_exc>>
    /\ UNCHANGED <<nbVars, cgVars, ragVars, dnVars, vnVars, ckVars, pbVars, sfVars, fpVars>>

(***************************************************************************)
(* normalize/sfs_parser.py: detect_numbering_type                          *)
(***************************************************************************)
Min(S) == CHOOSE x \in S : \A y \in S : x <= y

Range(seq) == {seq[i] : i \in 1..Len(seq)}

\* detect_numbering_type(chapters), with SINGLE_CHAPTER_THRESHOLD = threshold
DetectNumberingType(chapters, threshold) ==
    LET keys == DOMAIN chapters
        \* the chapters the loop over sorted_k returns at
        stops == {k \in keys : k > 1 /\ chapters[k] # <<>>}
        k1_count == IF 1 \in keys THEN Len(chapters[1]) ELSE 0
    IN  IF keys = {} THEN "sequential"
        ELSE IF Cardinality(keys) >= 2 /\ stops # {}
        THEN IF Min(Range(chapters[Min(stops)])) = 1 THEN "relative" ELSE "sequential"
        ELSE IF Cardinality(keys) = 1 /\ (CHOOSE k \in keys : TRUE) > 1
        THEN "sequential"
        ELSE IF k1_count >= threshold THEN "sequential" ELSE "relative"

\* the paragraph numbers seen under one chapter's anchors, in document order
ParagraphLists ==
    {<<>>, <<1>>, <<2, 1>>, <<5, 6>>, <<1, 2, 3>>,
     [i \in 1..8 |-> i], [i \in 1..10 |-> i]}

ChapterMappings ==
    UNION {[keys -> ParagraphLists] : keys \in SUBSET (0..MaxChapter)}

\* values of single_chapter_sequential_threshold in embedding_config.yaml
Thresholds == {3, 8}

DnIdle ==
    /\ dn_pc = "idle"
    /\ dn_threshold = 8
    /\ dn_chapters = <<>>
    /\ dn_result = NONE

DnInit ==
    /\ dn_pc = "ready"
    /\ dn_threshold \in Thresholds
    /\ dn_chapters \in ChapterMappings
    /\ dn_result = NONE

DnDetect ==
    /\ dn_pc = "ready"
    /\ dn_pc' = "done"
    /\ dn_result' = DetectNumberingType(dn_chapters, dn_threshold)
    /\ UNCHANGED <<dn_threshold, dn_chapters>>
    /\ UNCHANGED <<nbVars, cgVars, ragVars, abVars, vnVars, ckVars, pbVars, sfVars, fpVars>>

(***************************************************************************)
(* normalize/sfs_normalizer.py: get_verified_numbering_type                *)
(***************************************************************************)
\* an entry of _PRIORITY_MAP: numbering_type is NONE when the key is absent
PriorityEntry(present, verified, numbering_type) ==
    [present |-> present, numbering_type_verified |-> verified,
     numbering_type |-> numbering_type]

PriorityEntries ==
    {PriorityEntry(FALSE, FALSE, NONE),
     PriorityEntry(TRUE, TRUE, "relative"),
     PriorityEntry(TRUE, TRUE, "sequential"),
     PriorityEntry(TRUE, FALSE, "relative"),
     PriorityEntry(TRUE, TRUE, NONE)}

Statutes == {"1949:381", "1915:218"}

NumberingTypes == {"relative", "sequential"}

\* entry.get("numbering_type_verified") and "numbering_type" in entry
HasVerifiedType(entry) ==
    entry.present /\ entry.numbering_type_verified /\ entry.numbering_type # NONE

\* a warning at every mismatch
WarnsAtEveryMismatch(entry, sfs_nr, detected, warned) ==
    HasVerifiedType(entry) /\ entry.numbering_type # detected

\* the condition of logger.warning
Warns(entry, sfs_nr, detected, warned) ==
    HasVerifiedType(entry) /\ entry.numbering_type # detected /\ sfs_nr \notin warned

\* the value get_verified_numbering_type returns
VerifiedNumberingType(entry, detected) ==
    IF HasVerifiedType(entry) THEN entry.numbering_type ELSE detected

VnIdle ==
    /\ vn_pc = "idle"
    /\ vn_map = [sfs_nr \in Statutes |-> PriorityEntry(FALSE, FALSE, NONE)]
    /\ vn_warned = {}
    /\ vn_log = <<>>
    /\ vn_calls = <<>>

\* the module once imported: the map loaded, nothing warned about yet
VnInit ==
    /\ vn_pc = "running"
    /\ vn_map \in [Statutes -> PriorityEntries]
    /\ vn_warned = {}
    /\ vn_log = <<>>
    /\ vn_calls = <<>>

\* get_verified_numbering_type(sfs_nr, detected)
VnGetVerified ==
    /\ vn_pc = "running"
    /\ Len(vn_calls) < MaxCalls
    /\ \E sfs_nr \in Statutes, detected \in NumberingTypes :
          LET entry == vn_map[sfs_nr]
              warns == Warns(entry, sfs_nr, detected, vn_warned)
          IN  /\ vn_calls' = Append(vn_calls,
                     [sfs_nr |-> sfs_nr, detected |-> detected,
                      returned |-> VerifiedNumberingType(entry, detected)])
              /\ vn_log' = IF warns
                           THEN Append(vn_log, [sfs_nr |-> sfs_nr, call |-> Len(vn_calls) + 1])
                           ELSE vn_log
              /\ vn_warned' = IF warns THEN vn_warned \cup {sfs_nr} ELSE vn_warned
    /\ UNCHANGED <<vn_pc, vn_map>>
    /\ UNCHANGED <<nbVars, cgVars, ragVars, abVars, dnVars, ckVars, pbVars, sfVars, fpVars>>

(***************************************************************************)
(* normalize/sfs_chunker.py: chunk_paragraphs                              *)
(*                                                                         *)
(* A text is known by the number of its words, which is all the chunker    *)
(* reads of it: joining texts with "\n\n" or "\n" adds their word counts.  *)
(***************************************************************************)
MIN_TOKENS == 100
MAX_TOKENS == 800

\* _approx_tokens(text) = int(len(text.split()) * 1.3)
ApproxTokens(words) == (words * 13) \div 10

\* the sfs_nr argument of chunk_paragraphs
CkSfsNr == "1962:700"

Digit(d) == <<"0", "1", "2", "3", "4", "5", "6", "7", "8", "9">>[d + 1]

\* str(n) of a natural number
RECURSIVE Str(_)
Str(n) == IF n < 10 THEN Digit(n) ELSE Str(n \div 10) \o Digit(n % 10)

\* f"{chunk_idx:03d}"
Pad3(n) == IF n < 10 THEN "00" \o Str(n) ELSE IF n < 100 THEN "0" \o Str(n) ELSE Str(n)

\* paragraf.replace(" ", "")
RemoveSpaces(paragraf) ==
    CASE paragraf = "1 a" -> "1a"
      [] paragraf = "2 a" -> "2a"
      [] OTHER -> paragraf

\* _make_namespace(sfs_nr, kapitel, paragraf, numbering_type, chunk_idx)
MakeNamespace(sfs_nr, kapitel, paragraf, numbering_type, chunk_idx) ==
    LET kap_str == IF numbering_type = "relative" /\ kapitel # ""
                   THEN kapitel \o "kap"
                   ELSE "0kap"
    IN  "sfs::" \o sfs_nr \o "_" \o kap_str \o "_" \o paragraf \o "§_chunk_" \o Pad3(chunk_idx)

\* a paragraph object of the parser: the words of its text, the words of each
\* of its stycken (<<>> when the key is absent or the list empty)
Paragraph(kapitel, paragraf, numbering_type, words, stycken, is_definition, is_overgangsbestammelse) ==
    [kapitel |-> kapitel, paragraf |-> paragraf, numbering_type |-> numbering_type,
     words |-> words, stycken |-> stycken,
     is_definition |-> is_definition,
     is_overgangsbestammelse |-> is_overgangsbestammelse]

\* _make_chunk: the chunk of the paragraphs first..last of the input, with
\* the metadata of the paragraph it is made from
MakeChunk(paragraphs, first, last, words, stycke, chunk_idx, chunk_total) ==
    [first |-> first, last |-> last,
     namespace |-> MakeNamespace(CkSfsNr, paragraphs[first].kapitel,
                                 RemoveSpaces(paragraphs[first].paragraf),
                                 paragraphs[first].numbering_type, chunk_idx),
     kapitel |-> paragraphs[first].kapitel,
     paragraf |-> paragraphs[first].paragraf,
     numbering_type |-> paragraphs[first].numbering_type,
     words |-> words, stycke |-> stycke,
     chunk_index |-> chunk_idx, chunk_total |-> chunk_total,
     is_definition |-> paragraphs[first].is_definition,
     is_overgangsbestammelse |-> paragraphs[first].is_overgangsbestammelse]

\* the merged chunk of the paragraphs i..j-1: paragraf and namespace are
\* overwritten with the range label
MergedChunk(paragraphs, i, j, merged_words) ==
    LET para == paragraphs[i]
        paragraf == para.paragraf \o "-" \o paragraphs[j - 1].paragraf
    IN  [MakeChunk(paragraphs, i, j - 1, merged_words, 0, 0, 1) EXCEPT
            !.paragraf = paragraf,
            !.namespace = MakeNamespace(CkSfsNr, para.kapitel, paragraf,
                                        para.numbering_type, 0)]

\* an inner loop that merges across a chapter boundary
RECURSIVE MergeAcrossChapters(_, _, _, _)
MergeAcrossChapters(paragraphs, i, j, merged_words) ==
    IF j <= Len(paragraphs) /\ ApproxTokens(merged_words) < MIN_TOKENS
    THEN IF /\ ~paragraphs[j].is_definition
            /\ ApproxTokens(merged_words + paragraphs[j].words) <= MAX_TOKENS
         THEN MergeAcrossChapters(paragraphs, i, j + 1, merged_words + paragraphs[j].words)
         ELSE [j |-> j, words |-> merged_words]
    ELSE [j |-> j, words |-> merged_words]

\* the inner while loop: the index after the last paragraph merged and the
\* words of merged_text
RECURSIVE Merge_(_, _, _, _)
Merge_(paragraphs, i, j, merged_words) ==
    IF j <= Len(paragraphs) /\ ApproxTokens(merged_words) < MIN_TOKENS
    THEN IF /\ paragraphs[j].kapitel = paragraphs[i].kapitel
            /\ ~paragraphs[j].is_definition
            /\ ApproxTokens(merged_words + paragraphs[j].words) <= MAX_TOKENS
         THEN Merge_(paragraphs, i, j + 1, merged_words + paragraphs[j].words)
         ELSE [j |-> j, words |-> merged_words]
    ELSE [j |-> j, words |-> merged_words]

\* a split loop that forgets the parts collected when the stycken run out
RECURSIVE SubChunksDroppingTail(_, _, _, _, _)
SubChunksDroppingTail(stycken, k, current_parts, current_tokens, sub_chunks) ==
    IF k > Len(stycken)
    THEN sub_chunks
    ELSE LET st_tokens == ApproxTokens(stycken[k])
         IN  IF current_tokens + st_tokens > MAX_TOKENS /\ current_parts # <<>>
             THEN SubChunksDroppingTail(stycken, k + 1, <<stycken[k]>>, st_tokens,
                                        Append(sub_chunks, current_parts))
             ELSE SubChunksDroppingTail(stycken, k + 1, Append(current_parts, stycken[k]),
                                        current_tokens + st_tokens, sub_chunks)

\* the for loop over stycken: the words of each sub-chunk
RECURSIVE SubChunks(_, _, _, _, _)
SubChunks(stycken, k, current_parts, current_tokens, sub_chunks) ==
    IF k > Len(stycken)
    THEN IF current_parts # <<>> THEN Append(sub_chunks, current_parts) ELSE sub_chunks
    ELSE LET st_tokens == ApproxTokens(stycken[k])
         IN  IF current_tokens + st_tokens > MAX_TOKENS /\ current_parts # <<>>
             THEN SubChunks(stycken, k + 1, <<stycken[k]>>, st_tokens,
                            Append(sub_chunks, current_parts))
             ELSE SubChunks(stycken, k + 1, Append(current_parts, stycken[k]),
                            current_tokens + st_tokens, sub_chunks)

RECURSIVE Sum(_)
Sum(seq) == IF seq = <<>> THEN 0 ELSE Head(seq) + Sum(Tail(seq))

\* one pass of the outer while loop at paragraph i: the chunks appended and
\* the value of i after it
LoopBody(paragraphs, i) ==
    LET para == paragraphs[i]
        tokens == ApproxTokens(para.words)
        merged == Merge_(paragraphs, i, i + 1, para.words)
        stycken == IF para.stycken = <<>> THEN <<para.words>> ELSE para.stycken
        sub_chunks == SubChunks(stycken, 1, <<>>, 0, <<>>)
        chunk_total == Len(sub_chunks)
    IN  IF para.is_definition
        THEN [chunks |-> <<MakeChunk(paragraphs, i, i, para.words, 0, 0, 1)>>, i |-> i + 1]
        ELSE IF tokens < MIN_TOKENS /\ ~para.is_overgangsbestammelse /\ merged.j > i + 1
        THEN [chunks |-> <<MergedChunk(paragraphs, i, merged.j, merged.words)>>,
              i |-> merged.j]
        ELSE IF tokens <= MAX_TOKENS
        THEN [chunks |-> <<MakeChunk(paragraphs, i, i, para.words, 0, 0, 1)>>, i |-> i + 1]
        ELSE [chunks |-> [idx \in 1..chunk_total |->
                            MakeChunk(paragraphs, i, i, Sum(sub_chunks[idx]),
                                      IF chunk_total > 1 THEN idx ELSE 0, idx - 1,
                                      chunk_total)],
              i |-> i + 1]

\* the outer while loop from paragraph i on
RECURSIVE ChunkFrom(_, _)
ChunkFrom(paragraphs, i) ==
    IF i > Len(paragraphs) THEN <<>>
    ELSE LoopBody(paragraphs, i).chunks \o ChunkFrom(paragraphs, LoopBody(paragraphs, i).i)

\* the values the cursor i takes at the loop test, from i on
RECURSIVE CursorFrom(_, _)
CursorFrom(paragraphs, i) ==
    IF i > Len(paragraphs) THEN <<i>>
    ELSE <<i>> \o CursorFrom(paragraphs, LoopBody(paragraphs, i).i)

\* chunk_paragraphs(paragraphs, sfs_nr, meta)
ChunkParagraphs(paragraphs) == ChunkFrom(paragraphs, 1)

\* the labels the parser extracts from "1 §", "2 §"
ParagraphLabels == {"1", "2"}

\* paragraphs below MIN_TOKENS, within the limits (at 800 tokens exactly for
\* 616 words), and above MAX_TOKENS with two stycken or without stycken;
\* plain, definition and transitional; the parser leaves kapitel empty in a
\* sequentially numbered statute and before the first chapter heading
ParagraphKinds(paragraf, numbering_type) ==
    LET kap(kapitel) == IF numbering_type = "sequential" THEN "" ELSE kapitel
        P(kapitel, words, stycken, is_definition, is_overgangsbestammelse) ==
            Paragraph(kap(kapitel), paragraf, numbering_type, words, stycken,
                      is_definition, is_overgangsbestammelse)
    IN  {P("1", 10, <<10>>, FALSE, FALSE),
         P("2", 10, <<10>>, FALSE, FALSE),
         P("", 10, <<10>>, FALSE, FALSE),
         P("1", 100, <<60, 40>>, FALSE, FALSE),
         P("1", 616, <<616>>, FALSE, FALSE),
         P("1", 1000, <<500, 500>>, FALSE, FALSE),
         P("1", 700, <<>>, FALSE, FALSE),
         P("1", 10, <<10>>, TRUE, FALSE),
         P("1", 1000, <<500, 500>>, TRUE, FALSE),
         P("1", 10, <<10>>, FALSE, TRUE),
         P("1", 1000, <<500, 500>>, FALSE, TRUE)}

\* the paragraphs of one document share its numbering_type
ParagraphsOf(numbering_type) ==
    UNION {ParagraphKinds(paragraf, numbering_type) : paragraf \in ParagraphLabels}

ParagraphInputs ==
    UNION {[1..n -> ParagraphsOf(numbering_type)] :
              n \in 0..MaxParagraphs, numbering_type \in NumberingTypes}

CkIdle ==
    /\ ck_pc = "idle"
    /\ ck_paragraphs = <<>>
    /\ ck_chunks = <<>>
    /\ ck_cursor = <<>>

CkInit ==
    /\ ck_pc = "ready"
    /\ ck_paragraphs \in ParagraphInputs
    /\ ck_chunks = <<>>
    /\ ck_cursor = <<>>

CkChunk ==
    /\ ck_pc = "ready"
    /\ ck_pc' = "done"
    /\ ck_chunks' = ChunkParagraphs(ck_paragraphs)
    /\ ck_cursor' = CursorFrom(ck_paragraphs, 1)
    /\ UNCHANGED ck_paragraphs
    /\ UNCHANGED <<nbVars, cgVars, ragVars, abVars, dnVars, vnVars, pbVars, sfVars, fpVars>>

(***************************************************************************)
(* rag/rag_pipeline.py                                                     *)
(***************************************************************************)
LOW_CONFIDENCE_ANSWER ==
    "Jag hittade inte tillräckligt med relevant information för att besvara din fråga med tillräcklig säkerhet. Försök omformulera frågan eller kontakta en jurist för rådgivning."

\* self._collections, the default of __init__
Collections == <<"paragrafen_sfs_v1", "paragrafen_forarbete_v1">>

\* the chunks a store double returns, after the chunks of the pipeline's tests
RagChunk(a, d, s, sfs_nr, kapitel_nr, paragraf_nr, beteckning) ==
    [metadata |-> [isdict |-> TRUE, authority_level |-> a, distance |-> d, source_type |-> s,
                   sfs_nr |-> sfs_nr, kapitel_nr |-> kapitel_nr, paragraf_nr |-> paragraf_nr,
                   beteckning |-> beteckning, namespace |-> NONE]]

RagChunks ==
    {RagChunk("binding", Num(30), "sfs", "1970:994", "3", "1", NONE),
     RagChunk("guiding", Num(10), "forarbete", "", "", "", "prop. 2019/20:89"),
     RagChunk("persuasive", Num(10), "doktrin", "", "", "", NONE)}

\* _extract_source_ref(chunk): the pieces of the reference, <<>> for "" and None;
\* the chunks drawn carry neither citation nor citation_format
ExtractSourceRef(chunk) ==
    LET meta == chunk.metadata
        namespace == IF meta.namespace = NONE THEN <<>> ELSE <<meta.namespace>>
    IN  IF meta.source_type = "sfs"
        THEN IF meta.kapitel_nr # "" /\ meta.paragraf_nr # ""
             THEN <<"SFS", meta.sfs_nr, meta.kapitel_nr, "kap.", meta.paragraf_nr, "§">>
             ELSE IF meta.paragraf_nr # ""
                  THEN <<"SFS", meta.sfs_nr, meta.paragraf_nr, "§">>
                  ELSE <<"SFS", meta.sfs_nr>>
        ELSE IF meta.source_type = "forarbete"
             THEN IF meta.beteckning = NONE THEN namespace
                  ELSE IF meta.beteckning = "" THEN <<>> ELSE <<meta.beteckning>>
        ELSE namespace

\* steg 6: the references in order, without the empty ones and without repeats
RECURSIVE Sources(_)
Sources(chunks) ==
    IF chunks = <<>> THEN <<>>
    ELSE LET init == Sources(SubSeq(chunks, 1, Len(chunks) - 1))
             ref == ExtractSourceRef(chunks[Len(chunks)])
         IN  IF ref = <<>> \/ (\E i \in 1..Len(init) : init[i] = ref)
             THEN init ELSE Append(init, ref)

\* DisclaimerInjector.inject(response_text, sources): the text, the separator and
\* the disclaimer, then the line of sources when there are any
Inject(response_text, sources) ==
    response_text \o <<"---", "disclaimer">>
        \o (IF sources # <<>> THEN <<"Källor">> ELSE <<>>)

Call(stage, arg) == [stage |-> stage, arg |-> arg]

EmptyDictResult == [pass |-> FALSE, score |-> 0, reason |-> NoReason, flags |-> <<>>, empty |-> TRUE]

NoBlock == [type |-> "none", blocked |-> FALSE, message |-> NONE]

NoReturn ==
    [answer |-> <<>>, blocked |-> FALSE, blocked_message |-> NONE, sources |-> <<>>,
     confidence |-> EmptyDictResult, chunks_used |-> 0, low_confidence |-> FALSE,
     returned |-> FALSE]

\* the dict an area-blocker double returns: not blocked, or blocked with a message
DoubleBlockResults ==
    {[type |-> "dict", blocked |-> FALSE, message |-> NONE],
     [type |-> "dict", blocked |-> TRUE,
      message |-> "Denna tjänst täcker inte straffrättsliga frågor. Kontakta en advokat."]}

\* what one store call does: it raises, or it returns a list of chunks
StoreOutcomes ==
    {[raised |-> TRUE, results |-> <<>>]}
    \cup {[raised |-> FALSE, results |-> r] :
            r \in UNION {[1..n -> RagChunks] : n \in 0..MaxResults}}

\* ChromaVectorStore.query has no parameter "where": the pipeline's call raises TypeError
RealStoreOutcomes == {[raised |-> TRUE, results |-> <<>>]}

RagQueryWords == {"stöld", "STÖLD", "stöldgods", "hyresavtal"}

RagQueries == UNION {[1..n -> RagQueryWords] : n \in 0..MaxQueryWords}

RagIdle ==
    /\ rag_blocker = "double"
    /\ rag_store = "double"
    /\ rag_query = <<>>
    /\ rag_pc = "idle"
    /\ rag_calls = <<>>
    /\ rag_block = NoBlock
    /\ rag_store_log = <<>>
    /\ rag_raw_chunks = <<>>
    /\ rag_reranked = <<>>
    /\ rag_confidence = EmptyDictResult
    /\ rag_result = NoReturn
    /\ rag_exc = NONE

\* a pipeline as __init__ wires it (AreaBlocker, ChromaVectorStore) or with the
\* doubles the tests inject, and one call of query(user_query)
RagInit ==
    /\ rag_blocker \in {"AreaBlocker", "double"}
    /\ rag_store \in {"ChromaVectorStore", "double"}
    /\ rag_query \in RagQueries
    /\ rag_pc = "start"
    /\ rag_calls = <<>>
    /\ rag_block = NoBlock
    /\ rag_store_log = <<>>
    /\ rag_raw_chunks = <<>>
    /\ rag_reranked = <<>>
    /\ rag_confidence = EmptyDictResult
    /\ rag_result = NoReturn
    /\ rag_exc = NONE

\* the early return of steg 1
BlockedReturn(block_result) ==
    [answer |-> IF block_result.message = NONE THEN <<>> ELSE <<block_result.message>>,
     blocked |-> TRUE, blocked_message |-> block_result.message, sources |-> <<>>,
     confidence |-> EmptyDictResult, chunks_used |-> 0, low_confidence |-> FALSE,
     returned |-> TRUE]

\* steg 1: block_result = self._area_blocker.is_blocked(user_query);
\* block_result.get("blocked", False) raises AttributeError on a tuple
RagBlockCheck ==
    /\ rag_pc = "start"
    /\ rag_calls' = Append(rag_calls, Call("is_blocked", ""))
    /\ \E block_result \in IF rag_blocker = "AreaBlocker"
                           THEN {IsBlocked(BUILT_IN_AREAS, rag_query)}
                           ELSE DoubleBlockResults :
          /\ rag_block' = block_result
          /\ IF block_result.type = "tuple"
             THEN /\ rag_pc' = "raised"
                  /\ rag_exc' = "AttributeError"
                  /\ UNCHANGED rag_result
             ELSE IF block_result.blocked
             THEN /\ rag_pc' = "returned"
                  /\ rag_result' = BlockedReturn(block_result)
                  /\ UNCHANGED rag_exc
             ELSE /\ rag_pc' = "embed"
                  /\ UNCHANGED <<rag_result, rag_exc>>
    /\ UNCHANGED <<nbVars, cgVars, abVars, dnVars, vnVars, ckVars, pbVars, sfVars, fpVars>>
    /\ UNCHANGED <<rag_blocker, rag_store, rag_query, rag_store_log, rag_raw_chunks,
                   rag_reranked, rag_confidence>>

\* steg 2: query_vector = self._embedder.embed(user_query)
RagEmbed ==
    /\ rag_pc = "embed"
    /\ rag_calls' = Append(rag_calls, Call("embed", ""))
    /\ rag_pc' = "retrieve"
    /\ UNCHANGED <<nbVars, cgVars, abVars, dnVars, vnVars, ckVars, pbVars, sfVars, fpVars>>
    /\ UNCHANGED <<rag_blocker, rag_store, rag_query, rag_block, rag_store_log,
                   rag_raw_chunks, rag_reranked, rag_confidence, rag_result, rag_exc>>

\* a loop body that keeps only the results of the collection queried last
MergeReplacing(raw_chunks, outcome) ==
    IF outcome.raised THEN raw_chunks ELSE outcome.results

\* the try / except of the loop: raw_chunks.extend(results), or a logged warning
Merge(raw_chunks, outcome) ==
    IF outcome.raised THEN raw_chunks ELSE raw_chunks \o outcome.results

\* steg 3, one round of the loop over self._collections
RagQueryCollection ==
    /\ rag_pc = "retrieve"
    /\ Len(rag_store_log) < Len(Collections)
    /\ LET collection == Collections[Len(rag_store_log) + 1]
       IN  /\ rag_calls' = Append(rag_calls, Call("query", collection))
           /\ \E outcome \in IF rag_store = "ChromaVectorStore"
                             THEN RealStoreOutcomes ELSE StoreOutcomes :
                 /\ rag_store_log' = Append(rag_store_log,
                        [collection |-> collection, raised |-> outcome.raised,
                         results |-> outcome.results])
                 /\ rag_raw_chunks' = Merge(rag_raw_chunks, outcome)
    /\ UNCHANGED <<nbVars, cgVars, abVars, dnVars, vnVars, ckVars, pbVars, sfVars, fpVars>>
    /\ UNCHANGED <<rag_blocker, rag_store, rag_query, rag_pc, rag_block, rag_reranked,
                   rag_confidence, rag_result, rag_exc>>

\* steg 4: reranked_chunks = self._norm_boost.rerank(raw_chunks)
RagRerank ==
    /\ rag_pc = "retrieve"
    /\ Len(rag_store_log) = Len(Collections)
    /\ rag_calls' = Append(rag_calls, Call("rerank", ""))
    /\ rag_reranked' = Rerank(rag_raw_chunks)
    /\ rag_pc' = "gate"
    /\ UNCHANGED <<nbVars, cgVars, abVars, dnVars, vnVars, ckVars, pbVars, sfVars, fpVars>>
    /\ UNCHANGED <<rag_blocker, rag_store, rag_query, rag_block, rag_store_log,
                   rag_raw_chunks, rag_confidence, rag_result, rag_exc>>

\* a gate test that lets every result through
GateOpen(confidence_result) == TRUE

\* confidence_result.get("pass", True)
GatePassed(confidence_result) == confidence_result.pass

\* the early return of steg 5
LowConfidenceReturn(confidence_result, reranked_chunks) ==
    [answer |-> <<LOW_CONFIDENCE_ANSWER>>, blocked |-> FALSE, blocked_message |-> NONE,
     sources |-> <<>>, confidence |-> confidence_result,
     chunks_used |-> Len(reranked_chunks), low_confidence |-> TRUE, returned |-> TRUE]

\* steg 5: confidence_result = self._confidence_gate.evaluate(reranked_chunks)
RagGate ==
    /\ rag_pc = "gate"
    /\ rag_calls' = Append(rag_calls, Call("evaluate", ""))
    /\ LET confidence_result == Evaluate([isnull |-> FALSE, items |-> rag_reranked])
       IN  /\ rag_confidence' = confidence_result
           /\ IF ~GatePassed(confidence_result)
              THEN /\ rag_pc' = "returned"
                   /\ rag_result' = LowConfidenceReturn(confidence_result, rag_reranked)
              ELSE /\ rag_pc' = "answer"
                   /\ UNCHANGED rag_result
    /\ UNCHANGED <<nbVars, cgVars, abVars, dnVars, vnVars, ckVars, pbVars, sfVars, fpVars>>
    /\ UNCHANGED <<rag_blocker, rag_store, rag_query, rag_block, rag_store_log,
                   rag_raw_chunks, rag_reranked, rag_exc>>

\* steg 6 to 10: sources, prompt, self._anthropic.messages.create (which may
\* raise), the klarsprak layer when the pipeline has one, the disclaimer
RagAnswer ==
    /\ rag_pc = "answer"
    /\ \E llm_ok \in BOOLEAN, has_klarsprak \in BOOLEAN :
          LET sources == Sources(rag_reranked)
              llm_answer == <<"llm_answer">>
              clarified_answer == IF has_klarsprak THEN <<"clarified_answer">> ELSE llm_answer
          IN  IF ~llm_ok
              THEN /\ rag_calls' = Append(rag_calls, Call("llm", ""))
                   /\ rag_pc' = "raised"
                   /\ rag_exc' = "APIError"
                   /\ UNCHANGED rag_result
              ELSE /\ rag_calls' = rag_calls \o <<Call("llm", "")>>
                          \o (IF has_klarsprak THEN <<Call("klarsprak", "")>> ELSE <<>>)
                          \o <<Call("inject", "")>>
                   /\ rag_pc' = "returned"
                   /\ rag_result' =
                         [answer |-> Inject(clarified_answer, sources), blocked |-> FALSE,
                          blocked_message |-> NONE, sources |-> sources,
                          confidence |-> rag_confidence,
                          chunks_used |-> Len(rag_reranked), low_confidence |-> FALSE,
                          returned |-> TRUE]
                   /\ UNCHANGED rag_exc
    /\ UNCHANGED <<nbVars, cgVars, abVars, dnVars, vnVars, ckVars, pbVars, sfVars, fpVars>>
    /\ UNCHANGED <<rag_blocker, rag_store, rag_query, rag_block, rag_store_log,
                   rag_raw_chunks, rag_reranked, rag_confidence>>

(***************************************************************************)
(* forarbete_publish: publish_forarbete and process_document               *)
(***************************************************************************)
\* the failure count above which the run is aborted
FailureThreshold == 100

\* the content of a norm file: a document in one of two versions, or text
\* that is not JSON
NormKinds == {"v1", "v2", "corrupt"}

\* sha256_of_norm(doc)
Sha256OfNorm(doc) ==
    CASE doc = "v1" -> "sha256(v1)"
      [] doc = "v2" -> "sha256(v2)"

\* a path under published_dir: no file, a file written by process_document,
\* a file that is not a published document
NoFile == [kind |-> "missing", norm_sha256 |-> NONE, document |-> NONE]
Garbage == [kind |-> "garbage", norm_sha256 |-> NONE, document |-> NONE]
PublishedFile(doc) ==
    [kind |-> "published", norm_sha256 |-> Sha256OfNorm(doc), document |-> doc]

\* a check that never finds a published file up to date
NeverSkip(target, norm_sha) == FALSE

\* _should_skip_by_idempotency(target_path, norm_sha)
ShouldSkipByIdempotency(target, norm_sha) ==
    IF target.kind = "missing" THEN FALSE
    ELSE target.norm_sha256 = norm_sha

\* process_document: the status returned ("failed" when it raises) and the
\* file at target_path afterwards
ProcessDocument(doc, target, dry_run, force) ==
    IF doc = "corrupt"
    THEN [status |-> "failed", target |-> target, written |-> FALSE]
    ELSE IF ~force /\ ShouldSkipByIdempotency(target, Sha256OfNorm(doc))
    THEN [status |-> "skipped", target |-> target, written |-> FALSE]
    ELSE LET action == IF target.kind = "missing" THEN "created" ELSE "updated"
         IN  IF dry_run
             THEN [status |-> action, target |-> target, written |-> FALSE]
             ELSE [status |-> action, target |-> PublishedFile(doc), written |-> TRUE]

\* a threshold that is already passed at the hundredth failure
ThresholdReached(failed) == failed >= FailureThreshold

\* results["failed"] > 100
ThresholdExceeded(failed) == failed > FailureThreshold

NewResults(total) ==
    [total |-> total, created |-> 0, updated |-> 0, skipped |-> 0, failed |-> 0]

Count(status, results) ==
    CASE status = "created" -> [results EXCEPT !.created = @ + 1]
      [] status = "updated" -> [results EXCEPT !.updated = @ + 1]
      [] status = "skipped" -> [results EXCEPT !.skipped = @ + 1]
      [] status = "failed" -> [results EXCEPT !.failed = @ + 1]

NoCallYet == [norm |-> <<>>, log |-> <<>>, dry_run |-> FALSE, force |-> FALSE, exc |-> NONE]

\* norm directories of up to MaxNormFiles files
NormDirs == UNION {[1..n -> NormKinds] : n \in 0..MaxNormFiles}

\* norm directories around the failure threshold: a run of corrupt files
\* with up to MaxValidAround documents before and after it
RECURSIVE Repeat(_, _)
Repeat(x, n) == IF n = 0 THEN <<>> ELSE <<x>> \o Repeat(x, n - 1)

LargeNormDirs ==
    {Repeat("v1", before) \o Repeat("corrupt", corrupt) \o Repeat("v1", after) :
        before \in 0..MaxValidAround,
        corrupt \in (FailureThreshold - 1)..(FailureThreshold + 1 + MaxValidAround),
        after \in 0..MaxValidAround}

PbIdle ==
    /\ pb_pc = "idle"
    /\ pb_run = "first"
    /\ pb_edited = FALSE
    /\ pb_norm = <<>>
    /\ pb_published = <<>>
    /\ pb_published_dir = FALSE
    /\ pb_dry_run = FALSE
    /\ pb_force = FALSE
    /\ pb_i = 0
    /\ pb_results = NewResults(0)
    /\ pb_log = <<>>
    /\ pb_written = {}
    /\ pb_exc = NONE
    /\ pb_prev = NoCallYet

\* before the first call: the norm files, and under published_dir nothing
\* or files that no earlier run wrote
PbInitWith(norm_dirs, files) ==
    /\ pb_pc = "ready"
    /\ pb_run = "first"
    /\ pb_edited = FALSE
    /\ pb_norm \in norm_dirs
    /\ pb_published \in [1..Len(pb_norm) -> files]
    /\ pb_published_dir \in BOOLEAN
    /\ ~pb_published_dir => \A i \in 1..Len(pb_norm) : pb_published[i] = NoFile
    /\ pb_dry_run = FALSE
    /\ pb_force = FALSE
    /\ pb_i = 0
    /\ pb_results = NewResults(0)
    /\ pb_log = <<>>
    /\ pb_written = {}
    /\ pb_exc = NONE
    /\ pb_prev = NoCallYet

PbInit == PbInitWith(NormDirs, {NoFile, Garbage})

\* an empty published_dir
PbInitLarge == PbInitWith(LargeNormDirs, {NoFile})

\* publish_forarbete up to the loop: the arguments, the file list, the
\* published_dir created unless dry_run, the counters
Enter(dry_run, force) ==
    /\ pb_pc' = "running"
    /\ pb_dry_run' = dry_run
    /\ pb_force' = force
    /\ pb_published_dir' = (pb_published_dir \/ ~dry_run)
    /\ pb_i' = 0
    /\ pb_results' = NewResults(Len(pb_norm))
    /\ pb_log' = <<>>
    /\ pb_written' = {}
    /\ pb_exc' = NONE
    /\ UNCHANGED <<pb_norm, pb_published>>

\* the end of a call: the first call is remembered
Leave(pc, exc, log) ==
    /\ pb_pc' = pc
    /\ pb_exc' = exc
    /\ pb_prev' = IF pb_run = "first"
                  THEN [norm |-> pb_norm, log |-> log, dry_run |-> pb_dry_run,
                        force |-> pb_force, exc |-> exc]
                  ELSE pb_prev

\* the first call of publish_forarbete
PbStart ==
    /\ pb_pc = "ready"
    /\ \E dry_run \in BOOLEAN, force \in BOOLEAN : Enter(dry_run, force)
    /\ UNCHANGED <<pb_run, pb_edited, pb_prev>>
    /\ UNCHANGED <<nbVars, cgVars, ragVars, abVars, dnVars, vnVars, ckVars, sfVars, fpVars>>

\* one pass of the loop over the norm files
PbProcess ==
    /\ pb_pc = "running"
    /\ pb_i < Len(pb_norm)
    /\ LET i == pb_i + 1
           done == ProcessDocument(pb_norm[i], pb_published[i], pb_dry_run, pb_force)
           results == Count(done.status, pb_results)
           log == Append(pb_log, done.status)
       IN  /\ pb_i' = i
           /\ pb_published' = [pb_published EXCEPT ![i] = done.target]
           /\ pb_written' = IF done.written THEN pb_written \cup {i} ELSE pb_written
           /\ pb_results' = results
           /\ pb_log' = log
           /\ IF ThresholdExceeded(results.failed)
              THEN Leave("raised", "PublishAbortError", log)
              ELSE UNCHANGED <<pb_pc, pb_exc, pb_prev>>
    /\ UNCHANGED <<pb_run, pb_edited, pb_norm, pb_published_dir, pb_dry_run, pb_force>>
    /\ UNCHANGED <<nbVars, cgVars, ragVars, abVars, dnVars, vnVars, ckVars, sfVars, fpVars>>

\* after the loop
PbReturn ==
    /\ pb_pc = "running"
    /\ pb_i = Len(pb_norm)
    /\ IF pb_results.failed > 0
       THEN Leave("raised", "PublishPartialFailureError", pb_log)
       ELSE Leave("returned", NONE, pb_log)
    /\ UNCHANGED <<pb_run, pb_edited, pb_norm, pb_published, pb_published_dir,
                   pb_dry_run, pb_force, pb_i, pb_results, pb_log, pb_written>>
    /\ UNCHANGED <<nbVars, cgVars, ragVars, abVars, dnVars, vnVars, ckVars, sfVars, fpVars>>

\* between the two calls one norm file is rewritten
PbEdit ==
    /\ pb_pc \in {"returned", "raised"}
    /\ pb_run = "first"
    /\ ~pb_edited
    /\ \E i \in 1..Len(pb_norm), doc \in NormKinds :
          /\ doc # pb_norm[i]
          /\ pb_norm' = [pb_norm EXCEPT ![i] = doc]
    /\ pb_edited' = TRUE
    /\ UNCHANGED <<pb_pc, pb_run, pb_published, pb_published_dir, pb_dry_run, pb_force,
                   pb_i, pb_results, pb_log, pb_written, pb_exc, pb_prev>>
    /\ UNCHANGED <<nbVars, cgVars, ragVars, abVars, dnVars, vnVars, ckVars, sfVars, fpVars>>

\* the second call of publish_forarbete
PbRestart ==
    /\ pb_pc \in {"returned", "raised"}
    /\ pb_run = "first"
    /\ pb_run' = "second"
    /\ \E dry_run \in BOOLEAN, force \in BOOLEAN : Enter(dry_run, force)
    /\ UNCHANGED <<pb_edited, pb_prev>>
    /\ UNCHANGED <<nbVars, cgVars, ragVars, abVars, dnVars, vnVars, ckVars, sfVars, fpVars>>

(***************************************************************************)
(* sfs_fetcher: SfsFetcher.fetch_all and _request_with_retry               *)
(***************************************************************************)
\* the documents of the list page: two with a dok_id, one without
ListedDocuments ==
    {[dok_id |-> "BAD", beteckning |-> "SFS 2020:1"],
     [dok_id |-> "GOOD", beteckning |-> "SFS 2020:2"],
     [dok_id |-> "", beteckning |-> "SFS 2020:3"]}

\* normalize_sfs_number(beteckning)
NormalizeSfsNumber(beteckning) ==
    CASE beteckning = "SFS 2020:1" -> "2020:1"
      [] beteckning = "SFS 2020:2" -> "2020:2"
      [] beteckning = "SFS 2020:3" -> "2020:3"

\* _sanitize_filename_stem(stem)
SanitizeFilenameStem(stem) ==
    CASE stem = "2020:1" -> "2020-1"
      [] stem = "2020:2" -> "2020-2"
      [] stem = "2020:3" -> "2020-3"

OutStem(document) == SanitizeFilenameStem(NormalizeSfsNumber(document.beteckning))

\* what session.get followed by raise_for_status does: a response, an
\* exception that _request_with_retry catches (HTTPError stands for Timeout
\* and ConnectionError too), or another RequestException
RequestOutcomes == {"ok", "HTTPError", "TooManyRedirects"}

\* a retry loop with one pass more than max_retries
AttemptsLeftOneMore(attempt, max_retries) == attempt <= max_retries

\* for attempt in range(1, self.max_retries + 1): another pass is left after
\* attempt passes
AttemptsLeft(attempt, max_retries) == attempt < max_retries

NewSummary ==
    [saved |-> 0, skipped_existing |-> 0, skipped_inactive |-> 0, errors |-> 0,
     processed_documents |-> 0, pages_fetched |-> 0]

ErrorEntry(source, dok_id, error) == [source |-> source, dok_id |-> dok_id, error |-> error]

\* the documents of list page p of a one-page listing
PageDocuments(p) == IF p = 1 THEN sf_listing ELSE <<>>

SfIdle ==
    /\ sf_pc = "idle"
    /\ sf_max_retries = 0
    /\ sf_listing = <<>>
    /\ sf_files = {}
    /\ sf_page = 1
    /\ sf_page_failures = 0
    /\ sf_next = 1
    /\ sf_attempt = 0
    /\ sf_summary = NewSummary
    /\ sf_errors = <<>>
    /\ sf_requests = <<>>
    /\ sf_saved = {}
    /\ sf_exc = NONE

\* fetch_all up to the first list request
SfInit ==
    /\ sf_pc = "list"
    /\ sf_max_retries \in 0..MaxRetries
    /\ sf_listing \in UNION {[1..n -> ListedDocuments] : n \in 0..MaxDocuments}
    /\ sf_files \in SUBSET {"2020-1"}
    /\ sf_page = 1
    /\ sf_page_failures = 0
    /\ sf_next = 1
    /\ sf_attempt = 0
    /\ sf_summary = NewSummary
    /\ sf_errors = <<>>
    /\ sf_requests = <<>>
    /\ sf_saved = {}
    /\ sf_exc = NONE

\* what _request_json_with_retry gives for the list request: the page, or
\* FetchError after its passes; without a pass there is no page
ListOutcomes(max_retries) == IF max_retries > 0 THEN {"ok", "FetchError"} ELSE {"FetchError"}

\* the list request of the while loop
SfRequestList ==
    /\ sf_pc = "list"
    /\ \E outcome \in ListOutcomes(sf_max_retries) :
          IF outcome = "ok"
          THEN /\ sf_summary' = [sf_summary EXCEPT !.pages_fetched = @ + 1]
               /\ sf_page_failures' = 0
               /\ sf_next' = 1
               /\ sf_pc' = "documents"
               /\ UNCHANGED <<sf_page, sf_errors>>
          ELSE /\ sf_summary' = [sf_summary EXCEPT !.errors = @ + 1]
               /\ sf_errors' = Append(sf_errors, ErrorEntry("sfs_list", NONE, outcome))
               /\ sf_page_failures' = sf_page_failures + 1
               /\ IF sf_page_failures + 1 >= sf_max_retries
                  THEN sf_pc' = "returned" /\ UNCHANGED sf_page
                  ELSE sf_pc' = "list" /\ sf_page' = sf_page + 1
               /\ UNCHANGED sf_next
    /\ UNCHANGED <<sf_max_retries, sf_listing, sf_files, sf_attempt, sf_requests, sf_saved,
                   sf_exc>>
    /\ UNCHANGED <<nbVars, cgVars, ragVars, abVars, dnVars, vnVars, ckVars, pbVars, fpVars>>

\* the next document of the page, up to its HTML request
SfNextDocument ==
    /\ sf_pc = "documents"
    /\ sf_next <= Len(PageDocuments(sf_page))
    /\ LET document == PageDocuments(sf_page)[sf_next]
           summary == [sf_summary EXCEPT !.processed_documents = @ + 1]
       IN  IF document.dok_id = ""
           THEN /\ sf_summary' = [summary EXCEPT !.errors = @ + 1]
                /\ sf_errors' = Append(sf_errors,
                                       ErrorEntry("sfs_document", NONE, "Missing dok_id."))
                /\ sf_next' = sf_next + 1
                /\ UNCHANGED <<sf_pc, sf_attempt>>
           ELSE IF OutStem(document) \in sf_files
           THEN /\ sf_summary' = [summary EXCEPT !.skipped_existing = @ + 1]
                /\ sf_next' = sf_next + 1
                /\ UNCHANGED <<sf_pc, sf_attempt, sf_errors>>
           ELSE /\ sf_summary' = summary
                /\ sf_pc' = "html"
                /\ sf_attempt' = 0
                /\ UNCHANGED <<sf_next, sf_errors>>
    /\ UNCHANGED <<sf_max_retries, sf_listing, sf_files, sf_page, sf_page_failures,
                   sf_requests, sf_saved, sf_exc>>
    /\ UNCHANGED <<nbVars, cgVars, ragVars, abVars, dnVars, vnVars, ckVars, pbVars, fpVars>>

\* one pass of the loop of _request_with_retry for the document's HTML; on a
\* response the document is written and counted
SfAttempt ==
    /\ sf_pc = "html"
    /\ AttemptsLeft(sf_attempt, sf_max_retries)
    /\ \E outcome \in RequestOutcomes :
          LET document == PageDocuments(sf_page)[sf_next] IN
          /\ sf_attempt' = sf_attempt + 1
          /\ sf_requests' = Append(sf_requests, [document |-> sf_next, outcome |-> outcome])
          /\ CASE outcome = "ok" ->
                    /\ sf_files' = sf_files \cup {OutStem(document)}
                    /\ sf_saved' = sf_saved \cup {sf_next}
                    /\ sf_summary' = [sf_summary EXCEPT !.saved = @ + 1]
                    /\ sf_next' = sf_next + 1
                    /\ sf_pc' = "documents"
                    /\ UNCHANGED sf_exc
               [] outcome = "HTTPError" ->
                    UNCHANGED <<sf_files, sf_saved, sf_summary, sf_next, sf_pc, sf_exc>>
               [] outcome = "TooManyRedirects" ->
                    /\ sf_pc' = "raised"
                    /\ sf_exc' = outcome
                    /\ UNCHANGED <<sf_files, sf_saved, sf_summary, sf_next>>
    /\ UNCHANGED <<sf_max_retries, sf_listing, sf_page, sf_page_failures, sf_errors>>
    /\ UNCHANGED <<nbVars, cgVars, ragVars, abVars, dnVars, vnVars, ckVars, pbVars, fpVars>>

\* no pass is left: _request_with_retry raises FetchError, fetch_all records
\* it and goes on with the next document
SfGiveUp ==
    /\ sf_pc = "html"
    /\ ~AttemptsLeft(sf_attempt, sf_max_retries)
    /\ sf_summary' = [sf_summary EXCEPT !.errors = @ + 1]
    /\ sf_errors' = Append(sf_errors,
                           ErrorEntry("sfs_document_html",
                                      PageDocuments(sf_page)[sf_next].dok_id, "FetchError"))
    /\ sf_next' = sf_next + 1
    /\ sf_pc' = "documents"
    /\ UNCHANGED <<sf_max_retries, sf_listing, sf_files, sf_page, sf_page_failures,
                   sf_attempt, sf_requests, sf_saved, sf_exc>>
    /\ UNCHANGED <<nbVars, cgVars, ragVars, abVars, dnVars, vnVars, ckVars, pbVars, fpVars>>

\* after the documents of the page: nothing remains, the loop ends and the
\* summary is returned
SfReturn ==
    /\ sf_pc = "documents"
    /\ sf_next > Len(PageDocuments(sf_page))
    /\ sf_pc' = "returned"
    /\ UNCHANGED <<sf_max_retries, sf_listing, sf_files, sf_page, sf_page_failures, sf_next,
                   sf_attempt, sf_summary, sf_errors, sf_requests, sf_saved, sf_exc>>
    /\ UNCHANGED <<nbVars, cgVars, ragVars, abVars, dnVars, vnVars, ckVars, pbVars, fpVars>>

(***************************************************************************)
(* forarbete_parser: ForarbeteParser._chunk_section                        *)
(* A text is the number of its words; a paragraph of a section is the      *)
(* sequence of its sentences.                                              *)
(***************************************************************************)
max_chunk_tokens == 800
min_chunk_tokens == 50

\* _estimate_tokens(text): int(len(text.split()) * 1.3)
EstimateTokens(words) == (words * 13) \div 10

\* _split_by_words(text)
RECURSIVE SplitByWords(_)
SplitByWords(words) ==
    LET words_per_chunk == Max((max_chunk_tokens * 10) \div 13, 1)
    IN  IF words = 0 THEN <<>>
        ELSE IF words <= words_per_chunk THEN <<words>>
        ELSE <<words_per_chunk>> \o SplitByWords(words - words_per_chunk)

\* the sentence loop of _split_overlong_paragraph from sentence k on, with
\* the sentences of current and their tokens
RECURSIVE PackSentences(_, _, _, _)
PackSentences(sentences, k, current, current_tokens) ==
    IF k > Len(sentences)
    THEN IF current # <<>> THEN <<Sum(current)>> ELSE <<>>
    ELSE LET sentence_tokens == EstimateTokens(sentences[k])
         IN  IF current # <<>> /\ current_tokens + sentence_tokens > max_chunk_tokens
             THEN <<Sum(current)>> \o PackSentences(sentences, k + 1, <<sentences[k]>>,
                                                    sentence_tokens)
             ELSE PackSentences(sentences, k + 1, Append(current, sentences[k]),
                                current_tokens + sentence_tokens)

\* _split_overlong_paragraph(paragraph)
SplitOverlongParagraph(paragraph) ==
    IF EstimateTokens(Sum(paragraph)) <= max_chunk_tokens THEN <<Sum(paragraph)>>
    ELSE IF Len(paragraph) <= 1 THEN SplitByWords(Sum(paragraph))
    ELSE PackSentences(paragraph, 1, <<>>, 0)

\* the first loop of _chunk_section: empty paragraphs dropped, the others
\* split and collected
RECURSIVE NormalizedParagraphs(_)
NormalizedParagraphs(section_paragraphs) ==
    IF section_paragraphs = <<>> THEN <<>>
    ELSE (IF Sum(Head(section_paragraphs)) = 0 THEN <<>>
          ELSE SplitOverlongParagraph(Head(section_paragraphs)))
         \o NormalizedParagraphs(Tail(section_paragraphs))

\* the inner while loop: the cursor after the paragraphs selected from idx
RECURSIVE SelectFrom(_, _, _, _)
SelectFrom(paragraphs, idx, cursor, selected_tokens) ==
    IF cursor > Len(paragraphs) THEN cursor
    ELSE LET candidate_tokens == EstimateTokens(paragraphs[cursor])
         IN  IF cursor > idx /\ selected_tokens + candidate_tokens > max_chunk_tokens
             THEN cursor
             ELSE IF selected_tokens + candidate_tokens >= max_chunk_tokens
             THEN cursor + 1
             ELSE SelectFrom(paragraphs, idx, cursor + 1,
                             selected_tokens + candidate_tokens)

\* the cursor after the selection, with the fallback for an empty selection
CursorAfter(paragraphs, idx) ==
    LET cursor == SelectFrom(paragraphs, idx, idx, 0)
    IN  IF cursor = idx THEN idx + 1 ELSE cursor

\* the chunk of the paragraphs idx .. cursor - 1, joined by blank lines
SectionChunk(paragraphs, idx, cursor) ==
    [first |-> idx, last |-> cursor - 1,
     words |-> Sum(SubSeq(paragraphs, idx, cursor - 1))]

\* a packing loop that starts the next chunk after the selected paragraphs
NextIdxWithoutOverlap(idx, cursor) == cursor

\* next_idx = cursor - 1 if len(selected) > 1 else cursor;
\* idx = next_idx if next_idx > idx else cursor
NextIdx(idx, cursor) ==
    LET next_idx == IF cursor - idx > 1 THEN cursor - 1 ELSE cursor
    IN  IF next_idx > idx THEN next_idx ELSE cursor

\* the paragraphs a section holds
SectionParagraphKinds ==
    {<<>>, <<5>>, <<30>>, <<300>>, <<400>>, <<616>>, <<700>>, <<400, 400>>, <<5, 700>>}

FpIdle ==
    /\ fp_pc = "idle"
    /\ fp_section = <<>>
    /\ fp_paragraphs = <<>>
    /\ fp_idx = 1
    /\ fp_trace = <<>>
    /\ fp_chunks = <<>>
    /\ fp_result = <<>>

FpInit ==
    /\ fp_pc = "start"
    /\ fp_section \in UNION {[1..n -> SectionParagraphKinds] : n \in 0..MaxSectionParagraphs}
    /\ fp_paragraphs = <<>>
    /\ fp_idx = 1
    /\ fp_trace = <<>>
    /\ fp_chunks = <<>>
    /\ fp_result = <<>>

\* _chunk_section up to the packing loop
FpStart ==
    /\ fp_pc = "start"
    /\ fp_paragraphs' = NormalizedParagraphs(fp_section)
    /\ IF fp_paragraphs' = <<>>
       THEN fp_pc' = "returned" /\ fp_result' = <<>>
       ELSE fp_pc' = "pack" /\ fp_result' = fp_result
    /\ UNCHANGED <<fp_section, fp_idx, fp_trace, fp_chunks>>
    /\ UNCHANGED <<nbVars, cgVars, ragVars, abVars, dnVars, vnVars, ckVars, pbVars, sfVars>>

\* one pass of the packing loop
FpPack ==
    /\ fp_pc = "pack"
    /\ fp_idx <= Len(fp_paragraphs)
    /\ LET cursor == CursorAfter(fp_paragraphs, fp_idx)
       IN  /\ fp_chunks' = Append(fp_chunks, SectionChunk(fp_paragraphs, fp_idx, cursor))
           /\ fp_trace' = Append(fp_trace, fp_idx)
           /\ IF cursor > Len(fp_paragraphs)
              THEN fp_pc' = "filter" /\ fp_idx' = fp_idx
              ELSE fp_pc' = "pack" /\ fp_idx' = NextIdx(fp_idx, cursor)
    /\ UNCHANGED <<fp_section, fp_paragraphs, fp_result>>
    /\ UNCHANGED <<nbVars, cgVars, ragVars, abVars, dnVars, vnVars, ckVars, pbVars, sfVars>>

\* the chunks of at least min_chunk_tokens, or all paragraphs as one chunk
FpReturn ==
    /\ fp_pc = "filter"
    /\ LET filtered == SelectSeq(fp_chunks,
                                 LAMBDA chunk : EstimateTokens(chunk.words) >= min_chunk_tokens)
       IN  fp_result' = IF filtered # <<>> THEN filtered
                        ELSE <<SectionChunk(fp_paragraphs, 1, Len(fp_paragraphs) + 1)>>
    /\ fp_pc' = "returned"
    /\ UNCHANGED <<fp_section, fp_paragraphs, fp_idx, fp_trace, fp_chunks>>
    /\ UNCHANGED <<nbVars, cgVars, ragVars, abVars, dnVars, vnVars, ckVars, pbVars, sfVars>>

vars == <<nbVars, cgVars, ragVars, abVars, dnVars, vnVars, ckVars, pbVars, sfVars, fpVars>>

\* one call of RagPipeline.query
Init == RagInit /\ NbIdle /\ CgIdle /\ AbIdle /\ DnIdle /\ VnIdle /\ CkIdle /\ PbIdle /\ SfIdle /\ FpIdle
Next ==
    \/ RagBlockCheck
    \/ RagEmbed
    \/ RagQueryCollection
    \/ RagRerank
    \/ RagGate
    \/ RagAnswer
Spec == Init /\ [][Next]_vars

\* rerank called on its own
InitRerank == NbInit /\ CgIdle /\ RagIdle /\ AbIdle /\ DnIdle /\ VnIdle /\ CkIdle /\ PbIdle /\ SfIdle /\ FpIdle
NextRerank == NbRerank /\ UNCHANGED <<cgVars, ragVars, abVars, dnVars, vnVars, ckVars, pbVars, sfVars, fpVars>>
SpecRerank == InitRerank /\ [][NextRerank]_vars

\* evaluate called on its own
InitGate == CgInit /\ NbIdle /\ RagIdle /\ AbIdle /\ DnIdle /\ VnIdle /\ CkIdle /\ PbIdle /\ SfIdle /\ FpIdle
NextGate == CgEvaluate /\ UNCHANGED <<nbVars, ragVars, abVars, dnVars, vnVars, ckVars, pbVars, sfVars, fpVars>>
SpecGate == InitGate /\ [][NextGate]_vars

\* an AreaBlocker: its construction and the calls made on it
InitBlocker == AbInit /\ NbIdle /\ CgIdle /\ RagIdle /\ DnIdle /\ VnIdle /\ CkIdle /\ PbIdle /\ SfIdle /\ FpIdle
NextBlocker ==
    \/ AbConstruct
    \/ AbIsBlocked
    \/ AbIsSfsBlocked
SpecBlocker == InitBlocker /\ [][NextBlocker]_vars

\* one call of detect_numbering_type
InitDetect == DnInit /\ NbIdle /\ CgIdle /\ RagIdle /\ AbIdle /\ VnIdle /\ CkIdle /\ PbIdle /\ SfIdle /\ FpIdle
NextDetect == DnDetect
SpecDetect == InitDetect /\ [][NextDetect]_vars

\* calls of get_verified_numbering_type, one after the other
InitVerified == VnInit /\ NbIdle /\ CgIdle /\ RagIdle /\ AbIdle /\ DnIdle /\ CkIdle /\ PbIdle /\ SfIdle /\ FpIdle
NextVerified == VnGetVerified
SpecVerified == InitVerified /\ [][NextVerified]_vars

\* one call of chunk_paragraphs
InitChunker == CkInit /\ NbIdle /\ CgIdle /\ RagIdle /\ AbIdle /\ DnIdle /\ VnIdle /\ PbIdle /\ SfIdle /\ FpIdle
NextChunker == CkChunk
SpecChunker == InitChunker /\ [][NextChunker]_vars

\* two calls of publish_forarbete over a small norm_dir
InitPublish == PbInit /\ NbIdle /\ CgIdle /\ RagIdle /\ AbIdle /\ DnIdle /\ VnIdle /\ CkIdle /\ SfIdle /\ FpIdle
NextPublish ==
    \/ PbStart
    \/ PbProcess
    \/ PbReturn
    \/ PbEdit
    \/ PbRestart
SpecPublish == InitPublish /\ [][NextPublish]_vars

\* one call of publish_forarbete over a norm_dir with about a hundred
\* corrupt files
InitPublishLarge == PbInitLarge /\ NbIdle /\ CgIdle /\ RagIdle /\ AbIdle /\ DnIdle /\ VnIdle /\ CkIdle /\ SfIdle /\ FpIdle
NextPublishLarge ==
    \/ PbStart
    \/ PbProcess
    \/ PbReturn
SpecPublishLarge == InitPublishLarge /\ [][NextPublishLarge]_vars

\* one call of SfsFetcher.fetch_all
InitFetcher == SfInit /\ NbIdle /\ CgIdle /\ RagIdle /\ AbIdle /\ DnIdle /\ VnIdle /\ CkIdle /\ PbIdle /\ FpIdle
NextFetcher ==
    \/ SfRequestList
    \/ SfNextDocument
    \/ SfAttempt
    \/ SfGiveUp
    \/ SfReturn
SpecFetcher == InitFetcher /\ [][NextFetcher]_vars

\* one call of ForarbeteParser._chunk_section
InitSection == FpInit /\ NbIdle /\ CgIdle /\ RagIdle /\ AbIdle /\ DnIdle /\ VnIdle /\ CkIdle /\ PbIdle /\ SfIdle
NextSection ==
    \/ FpStart
    \/ FpPack
    \/ FpReturn
SpecSection == InitSection /\ [][NextSection]_vars

\* the same call, which goes on as long as it has a step to take
FairSpecSection == InitSection /\ [][NextSection]_vars /\ WF_vars(NextSection)

(***************************************************************************)
(* Claims about NormBoost.rerank (checked under SpecRerank)                *)
(***************************************************************************)
\* an output chunk without the field rerank adds
WithoutNormScore(out) == [f \in DOMAIN out \ {"norm_score"} |-> out[f]]

Occurrences(seq, x) == Cardinality({i \in 1..Len(seq) : seq[i] = x})

StrippedOut == [i \in 1..Len(nb_out) |-> WithoutNormScore(nb_out[i])]

\* the input chunk an output position came from
SourceOf(i) == nb_input[nb_decorated[i].idx + 1]

ClaimedLevels == <<"binding", "guiding", "preparatory", "persuasive">>
ClaimedRank(level) ==
    IF level = "binding" THEN 0
    ELSE IF level = "guiding" THEN 1
    ELSE IF level = "preparatory" THEN 2
    ELSE 3
ClaimedWeight(level) ==
    IF level = "binding" THEN 10
    ELSE IF level = "guiding" THEN 7
    ELSE IF level = "preparatory" THEN 6
    ELSE 4
\* 1.0 - clamp(distance, 0, 1); 0.5 when missing or non-numeric
ClaimedRelevance(distance) ==
    IF distance.t \in {"none", "str"} THEN 50
    ELSE IF distance.v < 0 THEN 100
    ELSE IF distance.v > 100 THEN 0
    ELSE 100 - distance.v

IsNamedLevel(level) == \E k \in 1..Len(ClaimedLevels) : ClaimedLevels[k] = level

\* C6: of two chunks with the same distance, the one with the higher authority
\* level (binding > guiding > preparatory > persuasive) comes first in the output,
\* whatever their input order.
C6_HigherAuthorityFirstAtEqualDistance ==
    nb_pc = "done" =>
        \A i, j \in 1..Len(nb_out) :
            LET a == SourceOf(i).metadata
                b == SourceOf(j).metadata
            IN  ( /\ a.isdict /\ b.isdict
                  /\ a.distance = b.distance
                  /\ IsNamedLevel(a.authority_level) /\ IsNamedLevel(b.authority_level)
                  /\ ClaimedRank(a.authority_level) < ClaimedRank(b.authority_level) )
                => i < j

\* C7: the output is ordered by (-norm_score, authority_rank, original_index) with
\* authority_rank 0=binding, 1=guiding, 2=preparatory, 3=persuasive/unknown.
C7_OrderedByClaimedKey ==
    nb_pc = "done" =>
        \A i, j \in 1..Len(nb_out) :
            i < j =>
                LET ri == ClaimedRank(RerankMetadata(SourceOf(i)).authority_level)
                    rj == ClaimedRank(RerankMetadata(SourceOf(j)).authority_level)
                IN  KeyLess(<<-nb_out[i].norm_score, ri, nb_decorated[i].idx>>,
                            <<-nb_out[j].norm_score, rj, nb_decorated[j].idx>>)

\* C8 as stated: chunks with equal norm_score keep their input order.
C8_EqualScoreKeepsInputOrder ==
    nb_pc = "done" =>
        \A i, j \in 1..Len(nb_out) :
            (i < j /\ nb_out[i].norm_score = nb_out[j].norm_score)
                => nb_decorated[i].idx < nb_decorated[j].idx

\* C8 amended: chunks with equal norm_score and equal authority tie-break rank
\* keep their input order.
C8_EqualScoreAndRankKeepsInputOrder ==
    nb_pc = "done" =>
        \A i, j \in 1..Len(nb_out) :
            ( /\ i < j
              /\ nb_out[i].norm_score = nb_out[j].norm_score
              /\ AuthorityRank(EffectiveAuthority(SourceOf(i)))
                    = AuthorityRank(EffectiveAuthority(SourceOf(j))) )
                => nb_decorated[i].idx < nb_decorated[j].idx

\* C8 witness: two chunks of equal norm_score and rank that the sort had to keep
\* in input order while moving a third chunk in front of them.
C8_Witness ==
    /\ nb_pc = "done"
    /\ Len(nb_out) = 3
    /\ nb_out[2].norm_score = nb_out[3].norm_score
    /\ nb_decorated[2].authority_rank = nb_decorated[3].authority_rank
    /\ nb_decorated[1].idx = 2
    /\ nb_input[1] # nb_input[2]

\* C9: norm_score = authority_weight * relevance_weight with binding=1.0,
\* guiding=0.7, preparatory=0.6, persuasive=0.4 (also for an unknown or missing
\* level) and relevance 1.0 - clamp(distance, 0, 1), or 0.5 without a numeric distance.
C9_NormScoreIsClaimedProduct ==
    nb_pc = "done" =>
        \A i \in 1..Len(nb_out) :
            LET m == RerankMetadata(SourceOf(i))
            IN  nb_out[i].norm_score
                    = ClaimedWeight(m.authority_level) * ClaimedRelevance(m.distance)

(***************************************************************************)
(* Claims about ConfidenceGate.evaluate (checked under SpecGate)           *)
(***************************************************************************)
\* the reference of the specification: the conditions of the four flags
ClaimedFlags(items) ==
    {f \in {"only_persuasive", "conflicting_authority", "sparse_results", "single_source_type"} :
        \/ f = "only_persuasive"
           /\ \A i \in 1..Len(items) : GetAuthorityLevel(items[i]) = "persuasive"
        \/ f = "conflicting_authority"
           /\ \E i, j \in 1..Len(items) :
                /\ GetDistance(items[i]) <= 20 /\ GetAuthorityLevel(items[i]) = "binding"
                /\ GetDistance(items[j]) <= 20 /\ GetAuthorityLevel(items[j]) = "guiding"
        \/ f = "sparse_results" /\ Len(items) < 2
        \/ f = "single_source_type"
           /\ \A i, j \in 1..Len(items) : GetSourceType(items[i]) = GetSourceType(items[j])}

ClaimedPenalty(f) ==
    IF f = "only_persuasive" THEN 30000
    ELSE IF f = "conflicting_authority" THEN 20000
    ELSE IF f = "sparse_results" THEN 15000
    ELSE 10000

RECURSIVE SumPenalties(_)
SumPenalties(fs) ==
    IF fs = {} THEN 0
    ELSE LET f == CHOOSE x \in fs : TRUE
         IN  ClaimedPenalty(f) + SumPenalties(fs \ {f})

ClaimedScore(items) ==
    LET s == 100000 - SumPenalties(ClaimedFlags(items))
    IN  IF s < 0 THEN 0 ELSE s

FlagSet(result) == {result.flags[i] : i \in 1..Len(result.flags)}

\* C10: evaluate agrees with the reference: empty or null input gives pass=False,
\* score 0.0 and flags [no_results]; otherwise the flags are exactly those whose
\* condition holds, the score is 1.0 minus the penalties of the flags present,
\* floored at 0.0, and pass is true iff score >= 0.5.
C10_EvaluateAgreesWithReference ==
    cg_pc = "done" =>
        IF cg_chunks.isnull \/ cg_chunks.items = <<>>
        THEN /\ cg_result.pass = FALSE
             /\ cg_result.score = 0
             /\ cg_result.flags = <<"no_results">>
        ELSE /\ FlagSet(cg_result) = ClaimedFlags(cg_chunks.items)
             /\ Len(cg_result.flags) = Cardinality(FlagSet(cg_result))
             /\ cg_result.score = ClaimedScore(cg_chunks.items)
             /\ cg_result.pass = (ClaimedScore(cg_chunks.items) >= 50000)

\* C10 witness: two chunks at exactly the conflict threshold, one binding and one
\* guiding, of one source type: two flags, score 0.7, pass.
C10_Witness ==
    /\ cg_pc = "done"
    /\ Len(cg_chunks.items) = 2
    /\ GetDistance(cg_chunks.items[1]) = 20
    /\ GetDistance(cg_chunks.items[2]) = 20
    /\ cg_result.flags = <<"conflicting_authority", "single_source_type">>
    /\ cg_result.score = 70000
    /\ cg_result.pass

(***************************************************************************)
(* RagPipeline.query: claims                                               *)
(***************************************************************************)
Called(stage) == \E i \in 1..Len(rag_calls) : rag_calls[i].stage = stage

Ended == rag_pc \in {"returned", "raised"}

LaterStages == {"embed", "query", "rerank", "evaluate", "llm"}

ContainsWord(query, word) == \E i \in 1..Len(query) : query[i] = word

\* the results of the collections whose query succeeded, in the order queried
RECURSIVE Succeeded(_)
Succeeded(log) ==
    IF log = <<>> THEN <<>>
    ELSE LET init == Succeeded(SubSeq(log, 1, Len(log) - 1))
             last == log[Len(log)]
         IN  IF last.raised THEN init ELSE init \o last.results

\* C1: when the area blocker reports the query as blocked, query() ends without
\* having invoked the embedder, the vector store, the reranker, the confidence
\* gate or the LLM, and returns a result with blocked=True, the referral
\* message as answer, no sources and chunks_used=0.
C1_BlockedShortCircuits ==
    (rag_block.blocked /\ Ended) =>
        /\ \A stage \in LaterStages : ~Called(stage)
        /\ rag_pc = "returned"
        /\ rag_result.returned
        /\ rag_result.blocked = TRUE
        /\ rag_result.answer = <<rag_block.message>>
        /\ rag_result.sources = <<>>
        /\ rag_result.chunks_used = 0

\* C2: once the confidence gate has answered pass=False for a non-blocked
\* query, the LLM is never invoked and query() returns the fixed fallback
\* message with low_confidence=True and no sources; and an LLM call is always
\* preceded by the gate's pass=True for the reranked chunks of this query.
C2_LowConfidenceNeverReachesLlm ==
    /\ (Called("evaluate") /\ ~rag_confidence.pass) =>
          /\ ~rag_block.blocked
          /\ ~Called("llm")
          /\ rag_pc = "returned"
          /\ rag_result.returned
          /\ rag_result.answer = <<LOW_CONFIDENCE_ANSWER>>
          /\ rag_result.low_confidence = TRUE
          /\ rag_result.sources = <<>>
    /\ \A i \in 1..Len(rag_calls) :
          rag_calls[i].stage = "llm" =>
             /\ \E j \in 1..(i - 1) : rag_calls[j].stage = "evaluate"
             /\ rag_confidence = Evaluate([isnull |-> FALSE, items |-> rag_reranked])
             /\ rag_confidence.pass = TRUE

\* C2, its case: the gate rejected a non-empty list of reranked chunks and the
\* fallback was returned
C2_Witness ==
    /\ rag_pc = "returned"
    /\ ~rag_block.blocked
    /\ rag_reranked # <<>>
    /\ ~rag_confidence.pass
    /\ rag_result.low_confidence

\* C3: a pipeline with the real AreaBlocker, asked a query that contains the
\* whole word "stöld", returns a blocked result with a referral message, and
\* neither the embedder nor the vector store was called before.
C3_TheftQueryBlockedEndToEnd ==
    (rag_blocker = "AreaBlocker" /\ ContainsWord(rag_query, "stöld") /\ Ended) =>
        /\ rag_pc = "returned"
        /\ rag_result.blocked = TRUE
        /\ rag_result.blocked_message # NONE
        /\ ~Called("embed")
        /\ ~Called("query")

\* C4: a raising collection query does not end the request: past the retrieval
\* loop every collection has been queried, in order, and the candidates handed
\* to the reranker are exactly the results of the collections that succeeded.
C4_FailingCollectionIsolated ==
    /\ Len(rag_store_log) <= Len(Collections)
    /\ \A i \in 1..Len(rag_store_log) : rag_store_log[i].collection = Collections[i]
    /\ rag_raw_chunks = Succeeded(rag_store_log)
    /\ rag_exc \notin {"TypeError", "StoreError"}
    /\ (rag_store_log # <<>> /\ rag_pc # "retrieve") =>
          /\ Len(rag_store_log) = Len(Collections)
          /\ Called("rerank")
          /\ Len(rag_reranked) = Len(Succeeded(rag_store_log))
          /\ \A c \in RagChunks :
                Occurrences(Succeeded(rag_store_log), c)
                    = Occurrences([k \in 1..Len(rag_reranked) |->
                                     WithoutNormScore(rag_reranked[k])], c)

\* C4, its case: the first collection raised, the second returned chunks, and
\* the reranker received them
C4_Witness ==
    /\ Called("rerank")
    /\ Len(rag_store_log) = Len(Collections)
    /\ rag_store_log[1].raised
    /\ ~rag_store_log[2].raised
    /\ rag_store_log[2].results # <<>>
    /\ rag_raw_chunks = rag_store_log[2].results


(***************************************************************************)
(* ConfidenceGate.evaluate: score range and reason                         *)
(***************************************************************************)
\* C11: for every chunk list (empty, null, chunks with missing or malformed
\* metadata included) the score evaluate returns lies in [0.0, 1.0].
C11_ScoreInUnitInterval ==
    cg_pc = "done" => (cg_result.score >= 0 /\ cg_result.score <= 100000)

\* C11, its case: a list holding a chunk whose metadata is not a dict was
\* evaluated and penalised
C11_Witness ==
    /\ cg_pc = "done"
    /\ \E i \in 1..Len(cg_chunks.items) : cg_chunks.items[i].metadata = NotADict
    /\ cg_result.score > 0
    /\ cg_result.score < 100000

\* C12 as stated: whenever pass=False the reason is made of the names of the
\* flags triggered for the input, and whenever pass=True the reason is None.
C12_ReasonNamesTheFlags ==
    cg_pc = "done" =>
        IF cg_result.pass
        THEN cg_result.reason = NoReason
        ELSE /\ cg_result.flags # <<>>
             /\ cg_result.reason.joined = cg_result.flags

\* C12: whenever pass=False for a non-empty list the reason is the text
\* "Confidence below threshold due to: " followed by the names of the flags
\* triggered, in order; for an empty or null list it is the text "No retrieval
\* results." (which does not name the flag no_results); whenever pass=True the
\* reason is None.
C12_ReasonNamesTheFlagsUnlessEmpty ==
    cg_pc = "done" =>
        IF cg_result.pass
        THEN cg_result.reason = NoReason
        ELSE IF cg_chunks.isnull \/ cg_chunks.items = <<>>
             THEN /\ cg_result.reason = [text |-> "No retrieval results.", joined |-> <<>>]
                  /\ cg_result.flags = <<"no_results">>
             ELSE /\ cg_result.flags # <<>>
                  /\ cg_result.reason =
                        [text |-> "Confidence below threshold due to: ",
                         joined |-> cg_result.flags]

\* C12, its case: a non-empty list failed the gate with several flags
C12_Witness ==
    /\ cg_pc = "done"
    /\ cg_chunks.items # <<>>
    /\ ~cg_result.pass
    /\ Len(cg_result.flags) >= 2
    /\ cg_result.reason.joined = cg_result.flags


(***************************************************************************)
(* AreaBlocker: claims                                                     *)
(***************************************************************************)
\* the areas whose own keywords the query matches
MatchingAreas(areas, query) ==
    {i \in 1..Len(areas) : PatternFound(BuildTermsForArea(areas[i]), query)}

\* C13: is_blocked goes through the areas in configured order: a query that
\* matches the keywords of one or more areas is blocked with the referral
\* message of the first of them, and a query that matches no area's keywords,
\* like the empty query, gets (False, None).
C13_FirstMatchingAreaWins ==
    (ab_pc = "called" /\ ab_call.op = "is_blocked") =>
        LET matching == MatchingAreas(ab_areas, ab_call.query)
        IN  IF ab_call.query = <<>> \/ matching = {}
            THEN ab_reply.blocked = FALSE /\ ab_reply.message = NONE
            ELSE LET first == CHOOSE i \in matching : \A j \in matching : i <= j
                 IN  /\ ab_reply.blocked = TRUE
                     /\ ab_reply.message = GetMessage(ab_areas[first])

\* every configured pattern, stripped and lower-cased
ConfiguredPatterns ==
    UNION {{LowerPieces(IterSfsPatterns(ab_areas[i])[k]) :
                k \in 1..Len(IterSfsPatterns(ab_areas[i]))} : i \in 1..Len(ab_areas)}

\* C14: the bare statute number of a pattern with a "_kap{n}" suffix is not
\* blocked by that pattern, and a pattern without a chapter suffix blocks
\* exactly the statute number equal to it once both are trimmed and
\* lower-cased: a number without chapter suffix is blocked iff it equals a
\* pattern without chapter suffix.
C14_BareStatuteNotBlockedByChapterPattern ==
    (ab_pc = "called" /\ ab_call.op = "is_sfs_blocked") =>
        LET sfs == NormalizedSfs(ab_call.sfs_nr)
        IN  /\ \A p \in ConfiguredPatterns :
                  (HasKap(p) /\ sfs = BeforeKap(p)) => ~PatternBlocks(p, sfs)
            /\ \A p \in ConfiguredPatterns :
                  ~HasKap(p) => (PatternBlocks(p, sfs) <=> sfs = p)
            /\ ~HasKap(sfs) =>
                  (ab_reply.blocked <=> \E p \in ConfiguredPatterns : ~HasKap(p) /\ p = sfs)

\* C14, its case: the bare number of a configured chapter pattern was asked
\* for and not blocked
C14_Witness ==
    /\ ab_pc = "called"
    /\ ab_call.op = "is_sfs_blocked"
    /\ ab_call.sfs_nr = "1949:381"
    /\ \E p \in ConfiguredPatterns : HasKap(p) /\ BeforeKap(p) = <<"1949:381">>
    /\ ~ab_reply.blocked

\* C15: with the pattern "1949:381_kap6" configured (the built-in areas), of
\* the citations of statute 1949:381 only those of chapter 6 are blocked: the
\* bare statute and every other chapter are not.
C15_OnlyChapterSixBlocked ==
    (/\ ab_pc = "called"
     /\ ab_call.op = "is_sfs_blocked"
     /\ ab_areas = BUILT_IN_AREAS
     /\ StartsWith(NormalizedSfs(ab_call.sfs_nr), <<"1949:381">>)) =>
        (ab_reply.blocked <=> NormalizedSfs(ab_call.sfs_nr) = <<"1949:381", "_kap", "6">>)

\* the load outcomes after which the built-in areas are to be used
FallsBack(config) ==
    \/ config.kind \in {"missing", "os_error", "decode_error", "yaml_error",
                        "not_mapping", "not_list"}
    \/ /\ config.kind = "list"
       /\ \A i \in 1..Len(config.entries) :
             ~config.entries[i].isdict \/ config.entries[i].id \in {NONE, "", " "}

\* the built-in keywords among the words drawn
BuiltInWords == {"stöld", "asyl", "skatt"}

\* C16: whatever went wrong when the configuration was loaded (file missing,
\* read error, YAML error, top level not a mapping, excluded_areas not a
\* list, no valid entry), construction does not raise and the blocker holds
\* the built-in areas, never an empty list: a query with a built-in keyword
\* is blocked and a query without one is not.
C16_LoadFailureFallsBackToBuiltIns ==
    (ab_pc # "new" /\ FallsBack(ab_config)) =>
        /\ ab_pc # "raised"
        /\ ab_areas = BUILT_IN_AREAS
        /\ ab_areas # <<>>
        /\ (ab_call.op = "is_blocked") =>
              (ab_reply.blocked <=>
                  \E i \in 1..Len(ab_call.query) : Lower(ab_call.query[i]) \in BuiltInWords)


(***************************************************************************)
(* Numbering: claims                                                       *)
(***************************************************************************)
\* the four rules
ClaimedNumberingType(chapters, threshold) ==
    LET keys == DOMAIN chapters
        candidates == {k \in keys : k > 1 /\ chapters[k] # <<>>}
    IN  IF keys = {} THEN "sequential"
        ELSE IF Cardinality(keys) >= 2
        THEN IF candidates # {} /\ Min(Range(chapters[Min(candidates)])) = 1
             THEN "relative" ELSE "sequential"
        ELSE LET k == CHOOSE k \in keys : TRUE
             IN  IF k # 1 THEN "sequential"
                 ELSE IF Len(chapters[1]) >= threshold THEN "sequential" ELSE "relative"

\* C17: detect_numbering_type agrees with the four rules for every chapter
\* mapping: none -> sequential; two or more -> relative iff the lowest chapter
\* above 1 that has paragraphs starts at paragraph 1; one chapter not numbered
\* 1 -> sequential; one chapter numbered 1 -> sequential iff it has at least
\* threshold paragraphs.
C17_DetectAgreesWithFourRules ==
    dn_pc = "done" => dn_result = ClaimedNumberingType(dn_chapters, dn_threshold)

\* the calls made so far for a statute where manual and detected type differ
Mismatches(sfs_nr) ==
    {i \in 1..Len(vn_calls) :
        /\ vn_calls[i].sfs_nr = sfs_nr
        /\ HasVerifiedType(vn_map[sfs_nr])
        /\ vn_calls[i].detected # vn_map[sfs_nr].numbering_type}

\* C18: for a statute with a verified manual mapping every call returns the
\* manual value whatever was detected, and over any sequence of calls one
\* warning per statute is logged, at its first mismatch, and none after; for
\* a statute without a verified mapping the detected value is returned.
C18_ManualWinsAndWarnsOnce ==
    /\ \A i \in 1..Len(vn_calls) :
          LET entry == vn_map[vn_calls[i].sfs_nr]
          IN  IF entry.present /\ entry.numbering_type_verified /\ entry.numbering_type # NONE
              THEN vn_calls[i].returned = entry.numbering_type
              ELSE vn_calls[i].returned = vn_calls[i].detected
    /\ \A a, b \in 1..Len(vn_log) : vn_log[a].sfs_nr = vn_log[b].sfs_nr => a = b
    /\ \A sfs_nr \in Statutes :
          IF Mismatches(sfs_nr) = {}
          THEN \A a \in 1..Len(vn_log) : vn_log[a].sfs_nr # sfs_nr
          ELSE \E a \in 1..Len(vn_log) :
                  vn_log[a] = [sfs_nr |-> sfs_nr, call |-> Min(Mismatches(sfs_nr))]

\* C18, its case: a statute with a verified mapping was detected differently
\* twice, the manual value was returned both times and one warning was logged
C18_Witness ==
    \E sfs_nr \in Statutes :
        /\ Cardinality(Mismatches(sfs_nr)) >= 2
        /\ \A i \in Mismatches(sfs_nr) : vn_calls[i].returned = vn_map[sfs_nr].numbering_type
        /\ Cardinality({a \in 1..Len(vn_log) : vn_log[a].sfs_nr = sfs_nr}) = 1


(***************************************************************************)
(* chunk_paragraphs: claims                                                *)
(***************************************************************************)
Flagged(para) == para.is_definition \/ para.is_overgangsbestammelse

\* C19: every chunk emitted has between 100 and 800 estimated tokens, unless
\* it comes from a paragraph flagged definition or transitional provision.
C19_ChunkTokensWithinLimits ==
    ck_pc = "done" =>
        \A c \in 1..Len(ck_chunks) :
            (\A i \in ck_chunks[c].first..ck_chunks[c].last : ~Flagged(ck_paragraphs[i])) =>
                /\ ApproxTokens(ck_chunks[c].words) >= 100
                /\ ApproxTokens(ck_chunks[c].words) <= 800

\* C20: every paragraph flagged definition or transitional provision becomes
\* exactly one chunk of its own, whatever its size: it is not merged with a
\* neighbour, neither as the start of a merge nor absorbed into the merge of
\* a small paragraph before it, and it is not split.
C20_FlaggedParagraphStandsAlone ==
    ck_pc = "done" =>
        \A i \in 1..Len(ck_paragraphs) :
            Flagged(ck_paragraphs[i]) =>
                /\ Cardinality({c \in 1..Len(ck_chunks) :
                       ck_chunks[c].first <= i /\ i <= ck_chunks[c].last}) = 1
                /\ \A c \in 1..Len(ck_chunks) :
                       (ck_chunks[c].first <= i /\ i <= ck_chunks[c].last) =>
                          /\ ck_chunks[c].first = i
                          /\ ck_chunks[c].last = i
                          /\ ck_chunks[c].chunk_total = 1
                          /\ ck_chunks[c].words = ck_paragraphs[i].words

\* the words of the paragraphs first..last
RECURSIVE WordsOf(_, _, _)
WordsOf(paragraphs, first, last) ==
    IF first > last THEN 0
    ELSE paragraphs[first].words + WordsOf(paragraphs, first + 1, last)

IsMerged(chunk) == chunk.last > chunk.first

\* C21: a merged chunk combines consecutive paragraphs of one chapter, holds
\* no definition paragraph, has at most MAX_TOKENS estimated tokens, and its
\* paragraf label is "first-last" of the first and last paragraph merged.
C21_MergedChunkWellFormed ==
    ck_pc = "done" =>
        \A c \in 1..Len(ck_chunks) :
            LET chunk == ck_chunks[c] IN
            IsMerged(chunk) =>
                /\ \A i \in chunk.first..chunk.last :
                       /\ ck_paragraphs[i].kapitel = ck_paragraphs[chunk.first].kapitel
                       /\ ~ck_paragraphs[i].is_definition
                /\ chunk.words = WordsOf(ck_paragraphs, chunk.first, chunk.last)
                /\ ApproxTokens(chunk.words) <= MAX_TOKENS
                /\ chunk.paragraf = ck_paragraphs[chunk.first].paragraf \o "-"
                                        \o ck_paragraphs[chunk.last].paragraf

\* three paragraphs merged into one chunk labelled "1-2", next to a
\* definition-free run
C21_Witness ==
    /\ ck_pc = "done"
    /\ \E c \in 1..Len(ck_chunks) :
          /\ ck_chunks[c].last = ck_chunks[c].first + 2
          /\ ck_chunks[c].paragraf = "1-2"

\* the namespace the chunk has by the stated construction: the chapter
\* segment "{chapter_nr or 0}kap" under relative numbering, none under
\* sequential numbering
ClaimedNamespace(chunk) ==
    LET chapter == (IF chunk.kapitel = "" THEN "0" ELSE chunk.kapitel) \o "kap"
        tail == chunk.paragraf \o "§_chunk_" \o Pad3(chunk.chunk_index)
    IN  IF chunk.numbering_type = "relative"
        THEN "sfs::" \o CkSfsNr \o "_" \o chapter \o "_" \o tail
        ELSE "sfs::" \o CkSfsNr \o "_" \o tail

\* the half of the construction that concerns relative numbering
RelativeNamespacesAsClaimed ==
    ck_pc = "done" =>
        \A c \in 1..Len(ck_chunks) :
            ck_chunks[c].numbering_type = "relative" =>
                ck_chunks[c].namespace = ClaimedNamespace(ck_chunks[c])

\* C22: the namespace of a chunk of a relatively numbered statute has the
\* chapter segment "{chapter_nr or 0}kap" between statute number and
\* paragraph label, and the namespace of a chunk of a sequentially numbered
\* statute has no chapter segment.
C22_NamespaceChapterSegment ==
    ck_pc = "done" =>
        \A c \in 1..Len(ck_chunks) :
            ck_chunks[c].namespace = ClaimedNamespace(ck_chunks[c])

Namespaces(chunks) == [c \in 1..Len(chunks) |-> chunks[c].namespace]

\* no two paragraphs of the input share chapter and label
LabelsDistinct(paragraphs) ==
    \A i, j \in 1..Len(paragraphs) :
        (/\ paragraphs[i].kapitel = paragraphs[j].kapitel
         /\ paragraphs[i].paragraf = paragraphs[j].paragraf) => i = j

\* uniqueness for the inputs whose (chapter, label) pairs are distinct
NamespacesUniqueWhenLabelsDistinct ==
    (ck_pc = "done" /\ LabelsDistinct(ck_paragraphs)) =>
        \A c, d \in 1..Len(ck_chunks) :
            ck_chunks[c].namespace = ck_chunks[d].namespace => c = d

\* C23: no two chunks returned by one chunk_paragraphs call have the same
\* namespace, and chunking the same paragraphs again yields the same
\* namespaces in the same order.
C23_NamespacesUniqueAndStable ==
    ck_pc = "done" =>
        /\ \A c, d \in 1..Len(ck_chunks) :
               ck_chunks[c].namespace = ck_chunks[d].namespace => c = d
        /\ Namespaces(ChunkParagraphs(ck_paragraphs)) = Namespaces(ck_chunks)

\* round(word_count * 1.3): the nearest integer, the even one at a tie
RoundTokens(words) ==
    LET whole == (words * 13) \div 10
        tenths == (words * 13) % 10
    IN  IF tenths > 5 \/ (tenths = 5 /\ whole % 2 = 1) THEN whole + 1 ELSE whole

\* the word counts of the texts whose size the call estimates: each
\* paragraph's text, each stycke, each merged text
EstimatedTexts ==
    {ck_paragraphs[i].words : i \in 1..Len(ck_paragraphs)}
        \cup UNION {Range(ck_paragraphs[i].stycken) : i \in 1..Len(ck_paragraphs)}
        \cup {ck_chunks[c].words : c \in 1..Len(ck_chunks)}

\* C24: the token estimate behind every size decision of the chunker is
\* round(word_count * 1.3).
C24_EstimateIsRounded ==
    ck_pc = "done" =>
        \A words \in EstimatedTexts : ApproxTokens(words) = RoundTokens(words)

\* chunk b continues the split that chunk a belongs to
SameUnit(a, b) ==
    /\ a.first = a.last
    /\ b.first = a.first
    /\ b.last = a.last
    /\ b.chunk_total = a.chunk_total
    /\ b.chunk_index = a.chunk_index + 1

\* chunk a ends its unit and chunk b starts the unit of the next paragraph
NextUnit(a, b) ==
    /\ a.chunk_index = a.chunk_total - 1
    /\ b.first = a.last + 1
    /\ b.chunk_index = 0

\* the words each paragraph hands to the chunker: its stycken where the
\* split branch reads them, its text otherwise
ContributedWords(para) ==
    IF /\ ~para.is_definition
       /\ ApproxTokens(para.words) > MAX_TOKENS
       /\ para.stycken # <<>>
    THEN Sum(para.stycken)
    ELSE para.words

\* C30: chunk_paragraphs terminates and partitions its input: the cursor
\* starts at the first paragraph, strictly advances and ends behind the last
\* one; every paragraph lies in exactly one output unit (one standalone
\* chunk, one merged chunk, or the consecutive sub-chunks of one split); the
\* units come in document order and no word is dropped or repeated.
C30_TerminatesAndPartitions ==
    ck_pc = "done" =>
        LET n == Len(ck_paragraphs)
            m == Len(ck_chunks)
        IN  /\ ck_cursor[1] = 1
            /\ ck_cursor[Len(ck_cursor)] = n + 1
            /\ \A k \in 1..(Len(ck_cursor) - 1) : ck_cursor[k] < ck_cursor[k + 1]
            /\ (n = 0) = (m = 0)
            /\ m > 0 => /\ ck_chunks[1].first = 1
                        /\ ck_chunks[1].chunk_index = 0
                        /\ ck_chunks[m].last = n
                        /\ ck_chunks[m].chunk_index = ck_chunks[m].chunk_total - 1
            /\ \A c \in 1..m :
                   /\ ck_chunks[c].first <= ck_chunks[c].last
                   /\ ck_chunks[c].chunk_index < ck_chunks[c].chunk_total
                   /\ IsMerged(ck_chunks[c]) => ck_chunks[c].chunk_total = 1
            /\ \A c \in 1..(m - 1) :
                   \/ SameUnit(ck_chunks[c], ck_chunks[c + 1])
                   \/ NextUnit(ck_chunks[c], ck_chunks[c + 1])
            /\ Sum([c \in 1..m |-> ck_chunks[c].words])
                  = Sum([i \in 1..n |-> ContributedWords(ck_paragraphs[i])])

\* a merged unit followed by a split unit
C30_Witness ==
    /\ ck_pc = "done"
    /\ Len(ck_paragraphs) = 3
    /\ Len(ck_cursor) = 3
    /\ \E c \in 1..Len(ck_chunks) : IsMerged(ck_chunks[c])
    /\ \E c \in 1..Len(ck_chunks) : ck_chunks[c].chunk_total = 2

(***************************************************************************)
(* publish_forarbete: claims                                               *)
(***************************************************************************)
Failures(log) == Cardinality({k \in 1..Len(log) : log[k] = "failed"})

CallEnded == pb_pc \in {"returned", "raised"}

\* the state part of C25
FailureHandling ==
    /\ Len(pb_log) = pb_i
    /\ pb_results.failed = Failures(pb_log)
    /\ (pb_exc = "PublishAbortError") = (Failures(pb_log) > 100)
    /\ pb_exc = "PublishAbortError" =>
          /\ pb_pc = "raised"
          /\ Failures(pb_log) = 101
          /\ pb_log[pb_i] = "failed"
    /\ (CallEnded /\ Failures(pb_log) <= 100) =>
          /\ pb_i = Len(pb_norm)
          /\ (pb_pc = "returned") = (Failures(pb_log) = 0)
          /\ (pb_pc = "raised") = (pb_exc = "PublishPartialFailureError")

\* C25: publish_forarbete goes on after a failing document and stops early
\* only when failures pass 100: with at most 100 failures every document is
\* processed and the call ends with PublishPartialFailureError, or returns
\* when nothing failed; PublishAbortError is raised exactly when the 101st
\* failure is counted, and no document is processed after it.
C25_AbortOnlyAfterHundredFailures ==
    /\ []FailureHandling
    /\ [][pb_exc = "PublishAbortError" => UNCHANGED <<pb_i, pb_log, pb_published>>]_vars

\* the call aborted at the 101st failure with a document left unprocessed,
\* after a document that was published
C25_Witness ==
    /\ pb_exc = "PublishAbortError"
    /\ pb_i < Len(pb_norm)
    /\ pb_results.created = 1

\* the call went through a hundred failures and ended with the partial
\* failure
C25_WitnessPartial ==
    /\ pb_exc = "PublishPartialFailureError"
    /\ pb_results.failed = 100
    /\ pb_results.created = 2

\* the second call has ended, was made without force, and follows a first
\* call that was not a dry run
SecondCallEnded ==
    /\ pb_run = "second"
    /\ CallEnded
    /\ ~pb_force
    /\ ~pb_prev.dry_run

Documents == 1..Len(pb_norm)

Unchanged(i) == pb_norm[i] = pb_prev.norm[i]

\* no step of a dry run, its entry included, changes published_dir
DryRunWritesNothing ==
    /\ [](pb_dry_run => pb_written = {})
    /\ [][pb_dry_run' => UNCHANGED <<pb_published, pb_published_dir>>]_vars

RequestsFor(d) == {k \in 1..Len(sf_requests) : sf_requests[k].document = d}

\* the entries of the errors file written for a failed HTML request
HtmlErrors == SelectSeq(sf_errors, LAMBDA e : e.source = "sfs_document_html")

\* the HTML request of a document is sent at most max_retries times and never
\* again after a response
RetriesBounded ==
    \A d \in 1..Len(sf_listing) :
        /\ Cardinality(RequestsFor(d)) <= sf_max_retries
        /\ \A k, l \in RequestsFor(d) : k < l => sf_requests[k].outcome # "ok"

\* a call that got the page and returned has gone through all its documents:
\* each one is saved, skipped as existing, or recorded as an error, and every
\* document whose request got a response is saved
PageCompleted ==
    (sf_pc = "returned" /\ sf_page = 1 /\ sf_summary.pages_fetched = 1) =>
        /\ sf_summary.processed_documents = Len(sf_listing)
        /\ \A d \in 1..Len(sf_listing) :
              (\E k \in RequestsFor(d) : sf_requests[k].outcome = "ok") <=>
                  d \in sf_saved
        /\ \A d \in sf_saved : OutStem(sf_listing[d]) \in sf_files
        /\ Cardinality(sf_saved) = sf_summary.saved
        /\ sf_summary.saved + sf_summary.skipped_existing + sf_summary.errors
              = Len(sf_listing)

\* the step taken when max_retries requests for a document have failed
AfterLastFailure ==
    (sf_pc = "html" /\ sf_attempt = sf_max_retries) =>
        /\ sf_errors' = Append(sf_errors,
                               ErrorEntry("sfs_document_html", sf_listing[sf_next].dok_id,
                                          "FetchError"))
        /\ sf_summary' = [sf_summary EXCEPT !.errors = @ + 1]
        /\ UNCHANGED <<sf_saved, sf_files, sf_requests>>
        /\ sf_pc' = "documents"
        /\ sf_next' = sf_next + 1

OverlapOfOneParagraph ==
    \A k \in 1..(Len(fp_chunks) - 1) :
        /\ fp_chunks[k].first <= fp_chunks[k].last
        /\ fp_chunks[k + 1].first =
              IF fp_chunks[k].last > fp_chunks[k].first
              THEN fp_chunks[k].last
              ELSE fp_chunks[k].last + 1

\* the start index of every pass lies in the paragraph list and is larger
\* than the one before
StartIndexIncreases ==
    /\ \A k \in 1..Len(fp_trace) : fp_trace[k] \in 1..Len(fp_paragraphs)
    /\ \A k \in 1..(Len(fp_trace) - 1) : fp_trace[k] < fp_trace[k + 1]
    /\ fp_pc = "pack" => fp_idx \in 1..Len(fp_paragraphs)
    /\ fp_pc = "pack" /\ fp_trace # <<>> => fp_trace[Len(fp_trace)] < fp_idx
    /\ fp_pc \in {"filter", "returned"} /\ fp_chunks # <<>> =>
          fp_chunks[Len(fp_chunks)].last = Len(fp_paragraphs)

C28_WitnessSingle ==
    /\ fp_pc = "returned"
    /\ Len(fp_chunks) >= 2
    /\ fp_chunks[1].first = fp_chunks[1].last
    /\ fp_chunks[2].first = fp_chunks[1].last + 1

\* the flags of the result, as a set
FlagsOf(result) == Range(result.flags)

\* the call has returned for a non-empty chunk list
EvaluatedNonEmpty == cg_pc = "done" /\ ~cg_chunks.isnull /\ cg_chunks.items # <<>>

\* C29: with the default penalties and threshold, evaluate on a non-empty
\* chunk list returns pass=False exactly when the list holds one chunk whose
\* authority level, as the gate reads it, is persuasive; only_persuasive and
\* conflicting_authority are never both flagged, and sparse_results is never
\* flagged without single_source_type
C29_FailsOnlyOnOnePersuasiveChunk ==
    EvaluatedNonEmpty =>
        /\ cg_result.pass = FALSE <=>
              /\ Len(cg_chunks.items) = 1
              /\ GetAuthorityLevel(cg_chunks.items[1]) = "persuasive"
        /\ ~({"only_persuasive", "conflicting_authority"} \subseteq FlagsOf(cg_result))
        /\ "sparse_results" \in FlagsOf(cg_result) =>
              "single_source_type" \in FlagsOf(cg_result)

\* one chunk without an authority level: all three penalties, no pass
C29_Witness ==
    /\ EvaluatedNonEmpty
    /\ Len(cg_chunks.items) = 1
    /\ GetMetadata(cg_chunks.items[1]).authority_level = NONE
    /\ cg_result.flags = <<"only_persuasive", "sparse_results", "single_source_type">>
    /\ cg_result.score = 45000
    /\ cg_result.pass = FALSE

\* two persuasive chunks of one source type pass with 0.6
C29_WitnessTwoPersuasive ==
    /\ EvaluatedNonEmpty
    /\ Len(cg_chunks.items) = 2
    /\ cg_result.flags = <<"only_persuasive", "single_source_type">>
    /\ cg_result.score = 60000
    /\ cg_result.pass = TRUE

====
